---- MODULE Spec2Model ----
(***************************************************************************)
(* State-machine model of the apple-price backend: the two product stores  *)
(* (the JSON-backed in-memory Store and the SQLiteStore), the scheduler's  *)
(* scrape cycle, the price-change and new-arrival dispatchers, the         *)
(* subscription operations, and the detail scraper: its queue, its         *)
(* worker's retry loop and its shutdown.                                   *)
(*                                                                         *)
(* Conventions                                                             *)
(*  - Prices and discounts are float64 in the source; the model draws them *)
(*    from small sets of integers, on which the source's arithmetic is     *)
(*    exact.  A division by a zero price yields +Inf or NaN in Go; the     *)
(*    comparison helpers ChangeLt / ChangeGt give the IEEE-754 outcome.    *)
(*  - A value score is held in hundredths of a point (5000 = 50.0).        *)
(*  - Time is counted in ticks, TicksPerSecond ticks to a second; the      *)
(*    SQLite columns hold whole seconds (time.Time.Unix()).                *)
(*  - A Go map is a function whose DOMAIN is the set of keys present.      *)
(***************************************************************************)
EXTENDS Integers, Sequences, FiniteSets, TLC

VARIABLES
    impl,        \* which StoreInterface implementation is wired in
    products,    \* Store.products / the products table: ID -> record
    history,     \* Store.history / the price_history table: ID -> sequence
    now,         \* the wall clock read by time.Now(), in ticks
    subs,        \* new-arrival subscriptions: SubID -> record
    sent,        \* per (subscription, product): successful notifier calls
    subscriptions, \* price-change subscriptions: ID -> record
    notificationHistory, \* Store.notificationHistory / notification_history
    last,        \* the latest UpsertProduct call: arguments, pre-state, results
    detailScraper, \* Scheduler.detailScraper is set (SetDetailScraper was called)
    queue,       \* DetailScraper.queue: the buffered channel of products
    job,         \* the enrichment worker's position in processWithRetry
    stats,       \* DetailScraper.stats
    isRunning,   \* DetailScraper.isRunning
    stopCh,      \* DetailScraper.stopCh has been closed
    queueClosed, \* DetailScraper.queue has been closed
    stopCalls,   \* per caller of DetailScraper.Stop: position and calls begun
    closes,      \* close() executions on stopCh and on the queue
    scoreArgs,   \* arguments of the latest value-score evaluation
    scoreOut,    \* its result
    matchArgs,   \* arguments of the latest matchesSubscription evaluation
    matchOut,    \* its result: "none" before the call, then "match" or "skip"
    cycle,       \* Scheduler.runScrape: its position and the candidates scraped
    reader,      \* a caller of GetProduct: the record it saw; the records that
                 \* finished UpsertProduct calls have stored
    tally,       \* the goroutines that touch DetailScraper.stats, the holder
                 \* of DetailScraper.mu and what GetStats returned
    identity,    \* the latest call of GenerateID made by parseTile, one call
                 \* made before it, and how often the process was started
    probe,       \* the latest call of a function or query checked on its
                 \* own: its name, its arguments and what it returned
    chanFault,   \* the run-time panic that ended the process, if any
    pool,        \* the worker goroutines of DetailScraper.Start, the items
                 \* they hold, and the unlocked counters they share
    fanout,      \* a call of NotifyPriceChange: its goroutines, its error
                 \* channel and the caller's position
    twin         \* a Store and a SQLiteStore given the same UpsertProduct
                 \* calls

vars == <<impl, products, history, now, subs, sent, subscriptions,
          notificationHistory, last, detailScraper, queue, job, stats,
          isRunning, stopCh, queueClosed, stopCalls, closes, scoreArgs,
          scoreOut, matchArgs, matchOut, cycle, reader, tally, identity,
          probe, chanFault, pool, fanout, twin>>

storeVars  == <<impl, products, history>>
notifyVars == <<subs, sent, subscriptions, notificationHistory>>
lifeVars   == <<isRunning, stopCh, queueClosed, stopCalls, closes>>
detailVars == <<detailScraper, queue, job, stats, lifeVars>>
lateVars   == <<chanFault, pool, fanout, twin>>
auxVars    == <<probe, lateVars>>
scoreVars  == <<scoreArgs, scoreOut>>
matchVars  == <<matchArgs, matchOut>>

----------------------------------------------------------------------------
(* Program constants *)

maxHistoryPerProduct == 100

retryMax == 3

retryDelay == 2

queueCap == 1000

TicksPerSecond == 2

SecondsPerDay == 86400

----------------------------------------------------------------------------
(* Bounds of the model *)

\* the clock stops advancing at MaxNow ticks
MaxNow == 1

\* a scrape cycle is taken only while the product has fewer history rows
MaxHistLen == 3

\* a scrape cycle that enqueues is taken only while fewer items were enqueued
MaxItems == 2

\* successful sends counted per (subscription, product) pair
MaxSent == 2

\* price changes explored by the history-window specification beyond the window
MaxOverflow == 3

\* longest history handed to the score functions
MaxScoreHist == 3

\* free slots the queue-capacity specification starts with
MaxFree == 2

\* longest product list handed to Enqueue in one call
MaxBatch == 2

----------------------------------------------------------------------------
(* Generic helpers *)

Put(m, k, v) == [x \in (DOMAIN m) \cup {k} |-> IF x = k THEN v ELSE m[x]]

EmptyMap == [x \in {} |-> 0]

Min2(a, b) == IF a < b THEN a ELSE b

Occurrences(seq, x) == Cardinality({i \in 1..Len(seq) : seq[i] = x})

\* the running minimum of the loop over the history: the least price in it
MinPriceOf(h) ==
    LET prices == {h[i].Price : i \in DOMAIN h}
    IN  CHOOSE m \in prices : \A x \in prices : m <= x

\* the running maximum of the loop over the history: the greatest price in it
MaxPriceOf(h) ==
    LET prices == {h[i].Price : i \in DOMAIN h}
    IN  CHOOSE m \in prices : \A x \in prices : m >= x

\* change := (endPrice - startPrice) / startPrice ; change < permille/1000
\* startPrice = 0 gives +Inf (endPrice > 0) or NaN (endPrice = 0): both compare false
ChangeLt(startPrice, endPrice, permille) ==
    /\ startPrice > 0
    /\ (endPrice - startPrice) * 1000 < permille * startPrice

\* change > permille/1000 ; +Inf compares true, NaN false
ChangeGt(startPrice, endPrice, permille) ==
    IF startPrice > 0
    THEN (endPrice - startPrice) * 1000 > permille * startPrice
    ELSE endPrice > 0

\* time.Time.Unix(): whole seconds
Unix(t) == t \div TicksPerSecond

\* time.Unix(sec, 0)
TimeUnix(sec) == sec * TicksPerSecond

\* now.Sub(createdAt).Hours() / 24 <= days
AgeWithinDays(createdAt, at, days) ==
    (at - createdAt) <= days * SecondsPerDay * TicksPerSecond

----------------------------------------------------------------------------
(* Value score, in hundredths of a point *)

\* a clamp that lacks the upper limit
ClampLowOnly(score) ==
    IF score < 0 THEN 0 ELSE score

\* the final clamp of both score functions
Clamp(score) ==
    IF score > 10000 THEN 10000
    ELSE IF score < 0 THEN 0
    ELSE score

\* Store.calculateValueScore: discount component
discountScore(discount) ==
    IF discount >= 15 THEN 3000
    ELSE IF discount >= 12 THEN 2500
    ELSE IF discount >= 10 THEN 2000
    ELSE IF discount >= 8 THEN 1500
    ELSE IF discount >= 5 THEN 1000
    ELSE discount * 2 * 100

\* Store.calculateValueScore: trend component, first against last history entry
memTrendScore(h) ==
    IF Len(h) < 2 THEN 0
    ELSE LET firstPrice == h[1].Price
             lastPrice  == h[Len(h)].Price
         IN  IF ChangeLt(firstPrice, lastPrice, -20) THEN 2500
             ELSE IF ChangeLt(firstPrice, lastPrice, -10) THEN 2000
             ELSE IF ChangeLt(firstPrice, lastPrice, 0) THEN 1500
             ELSE IF ChangeGt(firstPrice, lastPrice, 20) THEN 0
             ELSE 1000

\* the banded position of price within [minPrice, maxPrice], maxPrice > minPrice
positionBand(price, minPrice, maxPrice) ==
    LET num == price - minPrice
        den == maxPrice - minPrice
    IN  IF num * 10 <= den THEN 20
        ELSE IF num * 10 <= 3 * den THEN 15
        ELSE IF num * 10 <= 5 * den THEN 10
        ELSE IF num * 10 <= 7 * den THEN 5
        ELSE 0

\* Store.calculateValueScore: price position component
memPositionScore(price, h) ==
    IF Len(h) < 2 THEN 0
    ELSE IF MaxPriceOf(h) > MinPriceOf(h)
         THEN positionBand(price, MinPriceOf(h), MaxPriceOf(h)) * 100
         ELSE 1000

\* SQLiteStore.ageScore; Store.calculateValueScore has the same bands inline
ageScore(createdAt, at) ==
    IF AgeWithinDays(createdAt, at, 7) THEN 10
    ELSE IF AgeWithinDays(createdAt, at, 30) THEN 7
    ELSE IF AgeWithinDays(createdAt, at, 90) THEN 3
    ELSE 0

\* SQLiteStore.stockScore; Store.calculateValueScore has the same points inline
stockScore(status) ==
    IF status = "available" THEN 15
    ELSE IF status = "limited" THEN 10
    ELSE 0

\* Store.calculateValueScore
calculateValueScore(product, h, at) ==
    Clamp(5000 + discountScore(product.Discount) + memTrendScore(h)
          + stockScore(product.StockStatus) * 100
          + memPositionScore(product.Price, h)
          + ageScore(product.CreatedAt, at) * 100)

\* SQLiteStore.trendScore: the last three history rows
trendScore(h) ==
    IF Len(h) < 3 THEN 0
    ELSE LET startPrice == h[Len(h) - 2].Price
             endPrice   == h[Len(h)].Price
         IN  IF ChangeLt(startPrice, endPrice, -20) THEN 25
             ELSE IF ChangeLt(startPrice, endPrice, -10) THEN 20
             ELSE IF ChangeLt(startPrice, endPrice, 0) THEN 15
             ELSE IF ChangeGt(startPrice, endPrice, 20) THEN 0
             ELSE 10

pricePositionScore(currentPrice, h) ==
    IF Len(h) = 0 THEN 10
    ELSE IF MaxPriceOf(h) = MinPriceOf(h) THEN 10
    ELSE positionBand(currentPrice, MinPriceOf(h), MaxPriceOf(h))

\* SQLiteStore.CalculateValueScore: weights 1.4, 1.33, 1.5, 1.5
CalculateValueScore(product, h, at) ==
    Clamp(5000 + trendScore(h) * 140
          + stockScore(product.StockStatus) * 133
          + pricePositionScore(product.Price, h) * 150
          + ageScore(product.CreatedAt, at) * 150)

\* price_trend as both stores derive it from the last three entries
TrendOf(h, dflt) ==
    IF Len(h) >= 3
    THEN LET startPrice == h[Len(h) - 2].Price
             endPrice   == h[Len(h)].Price
         IN  IF ChangeLt(startPrice, endPrice, -20) THEN "falling"
             ELSE IF ChangeGt(startPrice, endPrice, 20) THEN "rising"
             ELSE "stable"
    ELSE dflt

\* Store.updatePriceStats: writes lowest, highest and trend into the product
updatePriceStats(product, h) ==
    IF Len(h) = 0 THEN product
    ELSE [product EXCEPT !.LowestPrice = MinPriceOf(h),
                         !.HighestPrice = MaxPriceOf(h),
                         !.PriceTrend = TrendOf(h, product.PriceTrend)]

----------------------------------------------------------------------------
(* The stores.  UpsertProduct yields the new products map, the new history *)
(* map, the two return values and the candidate as the call leaves it.     *)

HistOf(H, id) == IF id \in DOMAIN H THEN H[id] ELSE <<>>

\* a history append that records the candidate's price instead of the stored
memHistoryAfterNewPrice(P, H, product, t) ==
    LET id == product.ID IN
    IF id \in DOMAIN P
    THEN IF P[id].Price # product.Price
         THEN LET appended == Append(HistOf(H, id),
                                  [Price |-> product.Price, Timestamp |-> t,
                                   Discount |-> product.Discount])
              IN  IF Len(appended) > maxHistoryPerProduct
                  THEN Tail(appended)
                  ELSE appended
         ELSE HistOf(H, id)
    ELSE << [Price |-> product.Price, Timestamp |-> t,
             Discount |-> product.Discount] >>

\* Store.UpsertProduct: the history the call leaves for the product
memHistoryAfter(P, H, product, t) ==
    LET id == product.ID IN
    IF id \in DOMAIN P
    THEN IF P[id].Price # product.Price
         THEN LET appended == Append(HistOf(H, id),
                                  [Price |-> P[id].Price, Timestamp |-> t,
                                   Discount |-> P[id].Discount])
              IN  IF Len(appended) > maxHistoryPerProduct
                  THEN Tail(appended)
                  ELSE appended
         ELSE HistOf(H, id)
    ELSE << [Price |-> product.Price, Timestamp |-> t,
             Discount |-> product.Discount] >>

\* return values that report the candidate's price as oldPrice
memPriceChangeSwapped(P, product) ==
    LET changed == product.ID \in DOMAIN P /\ P[product.ID].Price # product.Price
    IN  [priceChanged |-> changed,
         oldPrice     |-> IF changed THEN product.Price ELSE 0]

\* Store.UpsertProduct: the two return values
memPriceChange(P, product) ==
    LET changed == product.ID \in DOMAIN P /\ P[product.ID].Price # product.Price
    IN  [priceChanged |-> changed,
         oldPrice     |-> IF changed THEN P[product.ID].Price ELSE 0]

\* a creation time taken from the candidate on update
memCreatedAtFromCandidate(P, product, t) ==
    IF product.ID \in DOMAIN P THEN product.CreatedAt ELSE t

\* Store.UpsertProduct: the creation time the stored record gets
memCreatedAt(P, product, t) ==
    IF product.ID \in DOMAIN P THEN P[product.ID].CreatedAt ELSE t

\* Store.UpsertProduct (in-memory store)
memUpsertProduct(P, H, product, t) ==
    LET id      == product.ID
        exists  == id \in DOMAIN P
        ret     == memPriceChange(P, product)
        h1      == memHistoryAfter(P, H, product, t)
        p1      == [product EXCEPT
                      !.CreatedAt = memCreatedAt(P, product, t),
                      !.UpdatedAt = t]
        p2      == [p1 EXCEPT !.ValueScore = calculateValueScore(p1, h1, t)]
        p3      == updatePriceStats(p2, h1)
    IN  [products     |-> Put(P, id, p3),
         history      |-> IF exists /\ ~ret.priceChanged /\ id \notin DOMAIN H
                          THEN H ELSE Put(H, id, h1),
         priceChanged |-> ret.priceChanged,
         oldPrice     |-> ret.oldPrice,
         cand         |-> p3]

\* SQLiteStore.getPriceHistoryLocked: rows ORDER BY recorded_at ASC; the clock
\* never runs backwards, so insertion order is such an order
getPriceHistoryLocked(H, id) == HistOf(H, id)

\* SQLiteStore.updateProductStats: UPDATE products SET lowest, highest, trend
updateProductStats(row, h) ==
    IF Len(h) = 0 THEN row
    ELSE [row EXCEPT !.LowestPrice = MinPriceOf(h),
                     !.HighestPrice = MaxPriceOf(h),
                     !.PriceTrend = TrendOf(h, "stable")]

\* SQLiteStore.UpsertProduct: the price_history rows the call leaves
sqlHistoryAfter(P, H, product, t) ==
    LET id == product.ID IN
    IF id \in DOMAIN P /\ P[id].Price # product.Price
    THEN Put(H, id, Append(HistOf(H, id),
                      [Price |-> P[id].Price, Timestamp |-> TimeUnix(Unix(t)),
                       Discount |-> product.Discount]))
    ELSE H

\* SQLiteStore.UpsertProduct: description and specs_detail kept when the
\* candidate's are empty
sqlPreserve(existing, product) ==
    [product EXCEPT
        !.Description = IF product.Description = "" /\ existing.Description # ""
                        THEN existing.Description ELSE product.Description,
        !.SpecsDetail = IF product.SpecsDetail = "" /\ existing.SpecsDetail # ""
                        THEN existing.SpecsDetail ELSE product.SpecsDetail]

\* SQLiteStore.UpsertProduct: the two return values; oldPrice is set for
\* every existing product
sqlPriceChange(P, product) ==
    LET exists == product.ID \in DOMAIN P
    IN  [priceChanged |-> exists /\ P[product.ID].Price # product.Price,
         oldPrice     |-> IF exists THEN P[product.ID].Price ELSE 0]

\* SQLiteStore.UpsertProduct
sqlUpsertProduct(P, H, product, t) ==
    LET id      == product.ID
        exists  == id \in DOMAIN P
        ret     == sqlPriceChange(P, product)
        H1      == sqlHistoryAfter(P, H, product, t)
        h       == getPriceHistoryLocked(H1, id)
        p1      == IF exists
                   THEN LET q == sqlPreserve(P[id],
                                   [product EXCEPT !.CreatedAt = P[id].CreatedAt])
                        IN  [q EXCEPT !.ValueScore = CalculateValueScore(q, h, t)]
                   ELSE [product EXCEPT !.CreatedAt = t]
        p2      == [p1 EXCEPT !.UpdatedAt = t]
        \* the row before the INSERT .. ON CONFLICT statement
        rowStat == IF exists THEN updateProductStats(P[id], h) ELSE p2
        \* ON CONFLICT(id) DO UPDATE SET every column but id and created_at
        row     == [p2 EXCEPT
                      !.CreatedAt = IF exists THEN rowStat.CreatedAt
                                    ELSE TimeUnix(Unix(p2.CreatedAt)),
                      !.UpdatedAt = TimeUnix(Unix(p2.UpdatedAt))]
    IN  [products     |-> Put(P, id, row),
         history      |-> H1,
         priceChanged |-> ret.priceChanged,
         oldPrice     |-> ret.oldPrice,
         cand         |-> p2]

UpsertProduct(st, P, H, product, t) ==
    IF st = "Store" THEN memUpsertProduct(P, H, product, t)
    ELSE sqlUpsertProduct(P, H, product, t)

\* the database errors an UpsertProduct call can meet: none, the SELECT of
\* the stored price fails, the INSERT .. ON CONFLICT statement fails
Faults == {"none", "select", "insert"}

\* SQLiteStore.UpsertProduct when a statement fails.  A failed SELECT returns
\* (false, 0) before anything is written; a failed INSERT is printed and the
\* call returns what it had computed, the products row keeping what the
\* UPDATE of updateProductStats wrote
sqlUpsertProductFailing(P, H, product, t, fault) ==
    LET id     == product.ID
        exists == id \in DOMAIN P
        ok     == sqlUpsertProduct(P, H, product, t)
        h      == getPriceHistoryLocked(ok.history, id)
    IN  IF fault = "select"
        THEN [products |-> P, history |-> H, priceChanged |-> FALSE,
              oldPrice |-> 0, cand |-> product]
        ELSE [ok EXCEPT !.products =
                 IF exists THEN Put(P, id, updateProductStats(P[id], h))
                 ELSE P]

\* UpsertProduct under a database error; the in-memory store touches no
\* storage in UpsertProduct
UpsertProductIO(st, P, H, product, t, fault) ==
    IF st = "Store" \/ fault = "none" THEN UpsertProduct(st, P, H, product, t)
    ELSE sqlUpsertProductFailing(P, H, product, t, fault)

----------------------------------------------------------------------------
(* The catalog: what the extractor can return *)

IDs == {"p1", "p2"}

\* (currentPrice, originalPrice) pairs a tile can carry; 0 = absent or unparsable
PriceTags == { <<0, 0>>, <<85, 0>>, <<120, 100>> }

\* titles, as sequences of ASCII codes: "Mac", "iPad"
NameOf(id) == IF id = "p1" THEN <<77, 97, 99>> ELSE <<105, 80, 97, 100>>

CategoryOf(id) == IF id = "p1" THEN "Mac" ELSE "iPad"

\* ParseSpecs(title, ""): the raw spec string, "M2" for the Mac, none otherwise
SpecsOf(id) == IF id = "p1" THEN <<77, 50>> ELSE <<>>

\* AppleScraper.parseTile: discount from the price pair; a missing original
\* price is estimated as price / 0.85; the pairs above keep the result integral
tileDiscount(tag) ==
    LET price == tag[1]
        originalPrice == tag[2]
    IN  IF originalPrice = 0 /\ price > 0 THEN 15
        ELSE IF originalPrice > 0 /\ price > 0
             THEN ((originalPrice - price) * 100) \div originalPrice
             ELSE 0

\* AppleScraper.parseTile: the candidate built from one tile
parseTile(id, tag, timestamp) ==
    [ID |-> id, Name |-> NameOf(id), Category |-> CategoryOf(id),
     Region |-> "cn", ProductURL |-> "url",
     Price |-> tag[1], Discount |-> tileDiscount(tag),
     Specs |-> SpecsOf(id), Description |-> "", SpecsDetail |-> "tile",
     StockStatus |-> "available", ValueScore |-> 0,
     LowestPrice |-> 0, HighestPrice |-> 0, PriceTrend |-> "",
     CreatedAt |-> timestamp, UpdatedAt |-> timestamp]

NoProduct == parseTile("", <<0, 0>>, 0)

----------------------------------------------------------------------------
(* Product identity.  Strings are sequences of code points; a uint32 is    *)
(* kept as its two 16-bit halves <<high, low>>, so that the arithmetic     *)
(* modulo 2^32 never leaves the integers of the checker                    *)

\* hashString: the byte index from which no further character is hashed
hashPrefix == 100

\* hashString: the FNV-1a offset basis 2166136261 = 33052 * 2^16 + 40389
offsetBasis == <<33052, 40389>>

\* hashString: the FNV-1a prime, 2^24 + 403
prime32 == 16777619

\* the bitwise exclusive or of two numbers of n bits, n a power of two: of
\* their low halves and of their high halves
RECURSIVE xorBits(_, _, _)
xorBits(a, b, n) ==
    IF n = 1 THEN (a + b) % 2
    ELSE LET half == 2 ^ (n \div 2)
         IN  xorBits(a % half, b % half, n \div 2)
                 + half * xorBits(a \div half, b \div half, n \div 2)

\* hash32 ^= uint32(c)
xor32(h, c) ==
    <<xorBits(h[1], c \div 65536, 16), xorBits(h[2], c % 65536, 16)>>

\* hash32 *= prime32, modulo 2^32: the product with 2^24 is the lowest byte
\* moved to the top, the product with the rest of the prime is made by halves
mulPrime32(h) ==
    LET rest == prime32 % (2 ^ 24)
        low  == h[2] * rest
    IN  << (h[1] * rest + (low \div 65536) + (h[2] % 256) * 256) % 65536,
           low % 65536 >>

\* the number of bytes of a code point in UTF-8: `for i, c := range s` steps
\* i by it
utf8Len(c) ==
    IF c < 128 THEN 1 ELSE IF c < 2048 THEN 2 ELSE IF c < 65536 THEN 3 ELSE 4

\* hashString, the loop: st holds hash32 and the byte index i of the first
\* character of s
RECURSIVE fnvLoop(_, _)
fnvLoop(s, st) ==
    IF s = <<>> \/ st.i > hashPrefix THEN st.hash32
    ELSE fnvLoop(Tail(s),
                 [hash32 |-> mulPrime32(xor32(st.hash32, Head(s))),
                  i |-> st.i + utf8Len(Head(s))])

\* hashString, the loop started with hash32 = basis
fnvFrom(s, basis) == fnvLoop(s, [hash32 |-> basis, i |-> 0])

\* hashString, the conversion: the 8 lowest base-36 digits, lowest first
RECURSIVE base36(_, _)
base36(h, n) ==
    IF n = 0 THEN <<>>
    ELSE LET rest == (h[1] % 36) * 65536 + h[2]
         IN  <<rest % 36>> \o base36(<<h[1] \div 36, rest \div 36>>, n - 1)

\* charset[d]: the code of the digit d in "0123456789abcdefghijklmnopqrstuvwxyz"
charset(d) == IF d < 10 THEN 48 + d ELSE 87 + d

\* the hash of a mutant that seeds the offset basis with the clock
hashStringSeeded(s) ==
    LET digits == base36(fnvFrom(s, xor32(offsetBasis, now + 1)), 8)
    IN  [i \in 1..8 |-> charset(digits[i])]

\* hashString
hashString(s) ==
    LET digits == base36(fnvFrom(s, offsetBasis), 8)
    IN  [i \in 1..8 |-> charset(digits[i])]

\* GenerateID: "cn:" + category + ":" + hashString(specs), as the three parts
GenerateID(category, specs) == <<"cn", category, hashString(specs)>>

\* AppleScraper.parseTile: the identity of the product of a tile
tileID(category, partNumber, title) == GenerateID(category, partNumber \o title)

\* AppleScraper.ScrapeProductDetails: page is "error" (both fetches failed),
\* "bare" (a page without a description) or "full"
ScrapeProductDetails(product, page) ==
    IF product.ProductURL = "" \/ page = "error" THEN product
    ELSE [product EXCEPT
             !.Description = IF page = "full" THEN "overview" ELSE "",
             !.SpecsDetail = "detail"]

Pages == {"error", "bare", "full"}

----------------------------------------------------------------------------
(* New-arrival dispatch *)

SubIDs == {"s1", "s2"}

toLower(str) ==
    [i \in 1..Len(str) |-> IF str[i] \in 65..90 THEN str[i] + 32 ELSE str[i]]

containsIgnoreCase(str, substr) ==
    \E i \in 0..(Len(str) - Len(substr)) :
        SubSeq(toLower(str), i + 1, i + Len(substr)) = toLower(substr)

contains(str, substr) ==
    /\ Len(str) >= Len(substr)
    /\ \/ str = substr
       \/ /\ Len(str) > Len(substr)
          /\ \/ SubSeq(str, 1, Len(substr)) = substr
             \/ SubSeq(str, Len(str) - Len(substr) + 1, Len(str)) = substr
             \/ containsIgnoreCase(str, substr)

\* Dispatcher.matchesSubscription: category, price range, keywords
matchesSubscription(product, sub) ==
    /\ sub.Categories # {} => product.Category \in sub.Categories
    /\ ~(sub.MinPrice > 0 /\ product.Price < sub.MinPrice)
    /\ ~(sub.MaxPrice > 0 /\ product.Price > sub.MaxPrice)
    /\ sub.Keywords # {} => \E kw \in sub.Keywords : contains(product.Name, kw)

\* Dispatcher.NotifyNewArrival, lines 136-147: the `continue' on finding the
\* product among the notified IDs belongs to the inner `for _, id' loop, so
\* control always reaches the matching step; the subscription is never skipped
skipsNotified(sub, product) ==
    /\ \E i \in 1..Len(sub.NotifiedProductIDs) :
           sub.NotifiedProductIDs[i] = product.ID
    /\ FALSE

\* the notifier is invoked for this subscription and product
invokesNotifier(sub, product) ==
    /\ sub.Enabled
    /\ ~skipsNotified(sub, product)
    /\ matchesSubscription(product, sub)
    /\ sub.BarkKey # ""

\* Store.UpdateNotifiedProductIDs / SQLiteStore.UpdateNotifiedProductIDs
UpdateNotifiedProductIDs(sub, productID) ==
    IF \E i \in 1..Len(sub.NotifiedProductIDs) :
           sub.NotifiedProductIDs[i] = productID
    THEN sub
    ELSE [sub EXCEPT !.NotifiedProductIDs = Append(@, productID)]

\* a dispatch that records the product before looking at the send's outcome
NotifyNewArrivalEager(product, S, ok) ==
    [s \in DOMAIN S |->
        IF invokesNotifier(S[s], product)
        THEN UpdateNotifiedProductIDs(S[s], product.ID)
        ELSE S[s]]

\* Dispatcher.NotifyNewArrival over all subscriptions; ok[s] is the outcome
\* of the Bark send for subscription s
NotifyNewArrival(product, S, ok) ==
    [s \in DOMAIN S |->
        IF invokesNotifier(S[s], product) /\ ok[s]
        THEN UpdateNotifiedProductIDs(S[s], product.ID)
        ELSE S[s]]

\* successful sends after the dispatch
sentAfter(product, S, ok, cnt) ==
    [pr \in DOMAIN cnt |->
        IF pr[2] = product.ID /\ invokesNotifier(S[pr[1]], product) /\ ok[pr[1]]
        THEN cnt[pr] + 1 ELSE cnt[pr]]

\* a NewArrivalSubscription with no filter set
OpenSub(barkKey) ==
    [Enabled |-> TRUE, Paused |-> FALSE, BarkKey |-> barkKey,
     Categories |-> {}, Models |-> {}, Chips |-> {}, Storages |-> {},
     Memories |-> {}, StockStatuses |-> {}, MinPrice |-> 0, MaxPrice |-> 0,
     Keywords |-> {}, NotifiedProductIDs |-> <<>>, NotificationCount |-> 0]

InitialSubs ==
    [s \in SubIDs |->
        IF s = "s1"
        THEN OpenSub("k1")
        ELSE [OpenSub("k2") EXCEPT !.Categories = {"Mac"}, !.MaxPrice = 100,
                                   !.Keywords = {<<109, 97>>}]]

----------------------------------------------------------------------------
(* Price-change dispatch *)

PriceSubIDs == {"t1", "t2", "t3", "t4"}

\* the subscriptions table: model.Subscription rows
InitialSubscriptions ==
    [t \in PriceSubIDs |->
        IF t = "t1" THEN [ProductID |-> "p1", BarkKey |-> "k1", TargetPrice |-> 0]
        ELSE IF t = "t2"
             THEN [ProductID |-> "p1", BarkKey |-> "k2", TargetPrice |-> 85]
        ELSE IF t = "t3"
             THEN [ProductID |-> "p1", BarkKey |-> "", TargetPrice |-> 100]
        ELSE [ProductID |-> "p2", BarkKey |-> "k4", TargetPrice |-> 0]]

\* Store.GetSubscriptionsByProduct / SQLiteStore.GetSubscriptionsByProduct
GetSubscriptionsByProduct(SS, productID) ==
    {t \in DOMAIN SS : SS[t].ProductID = productID}

\* a target test that also holds back a price equal to the target
targetNotReachedStrict(s, newPrice) ==
    s.TargetPrice > 0 /\ newPrice >= s.TargetPrice

\* Dispatcher.NotifyPriceChange, line 56: the price has not reached the target
targetNotReached(s, newPrice) ==
    s.TargetPrice > 0 /\ newPrice > s.TargetPrice

\* Dispatcher.NotifyPriceChange: the Bark send is made for subscription s
\* (the dispatcher's BarkService is set)
sendsPriceChange(s, newPrice) ==
    /\ ~targetNotReached(s, newPrice)
    /\ s.BarkKey # ""

\* Dispatcher.NotifyPriceChange: the subscriptions the notifier is invoked for
NotifyPriceChange(product, oldPrice, newPrice, SS, ids) ==
    {t \in ids : sendsPriceChange(SS[t], newPrice)}

\* a dispatch decision that also fires for any product with a previous price
dispatchesOnOldPrice(priceChanged, oldPrice) ==
    priceChanged \/ oldPrice # 0

\* Scheduler.runScrape, line 311: price-change dispatch is made (the
\* scheduler's notifier is set)
dispatchesPriceChange(priceChanged, oldPrice) ==
    priceChanged

\* Dispatcher.NotifyPriceChange: one goroutine per subscription makes at
\* most one send; sends[t] is the number of sends made for subscription t
priceChangeSends(SS, ids, newPrice) ==
    [t \in DOMAIN SS |->
        IF t \in ids /\ sendsPriceChange(SS[t], newPrice) THEN 1 ELSE 0]

\* a loop that returns on the first failed send
RECURSIVE newArrivalLoopAbort(_, _, _, _)
newArrivalLoopAbort(order, product, S, ok) ==
    IF order = <<>> THEN <<>>
    ELSE IF invokesNotifier(S[Head(order)], product)
         THEN IF ok[Head(order)]
              THEN <<Head(order)>>
                       \o newArrivalLoopAbort(Tail(order), product, S, ok)
              ELSE <<Head(order)>>
         ELSE newArrivalLoopAbort(Tail(order), product, S, ok)

\* Dispatcher.NotifyNewArrival: the loop over the subscriptions in the order
\* of the list; the result is the sequence of subscriptions sent to.  A
\* failed send is logged and the loop continues with the next subscription
RECURSIVE newArrivalLoop(_, _, _, _)
newArrivalLoop(order, product, S, ok) ==
    IF order = <<>> THEN <<>>
    ELSE IF invokesNotifier(S[Head(order)], product)
         THEN <<Head(order)>> \o newArrivalLoop(Tail(order), product, S, ok)
         ELSE newArrivalLoop(Tail(order), product, S, ok)

\* both dispatch functions end with `return nil', whatever the sends returned
dispatchError(failed) == "nil"

----------------------------------------------------------------------------
(* The enrichment pipeline *)

\* the same subscriptions, switched off
DisabledSubs == [s \in SubIDs |-> [InitialSubs[s] EXCEPT !.Enabled = FALSE]]

\* DetailScraper.Enqueue: the admission test for one product
admissible(p) ==
    /\ p.Description = ""
    /\ p.ProductURL # ""
    /\ p.Region # "hk"

\* a send that does not look at the channel's capacity
EnqueueNoLimit(q, p, st) ==
    IF admissible(p)
    THEN Append(q, [product |-> p, live |-> (st = "Store")])
    ELSE q

\* DetailScraper.Enqueue for one product of the call; an entry is the
\* pointer sent on the channel, `live' when the in-memory store holds the
\* very same object (Store.UpsertProduct keeps the pointer it was given)
Enqueue(q, p, st) ==
    IF admissible(p) /\ Len(q) < queueCap
    THEN Append(q, [product |-> p, live |-> (st = "Store")])
    ELSE q

\* EnqueueSingle: its admission test leaves the region out
admissibleSingle(p) ==
    /\ p.Description = ""
    /\ p.ProductURL # ""

\* DetailScraper.EnqueueSingle
EnqueueSingle(q, p, st) ==
    IF admissibleSingle(p) /\ Len(q) < queueCap
    THEN Append(q, [product |-> p, live |-> (st = "Store")])
    ELSE q

\* DetailScraper.Enqueue: the loop over the products of the call
RECURSIVE EnqueueAll(_, _, _)
EnqueueAll(q, ps, st) ==
    IF ps = <<>> THEN q
    ELSE EnqueueAll(Enqueue(q, Head(ps), st), Tail(ps), st)

\* entries for product id stop being the stored object once the store has
\* taken another object for that id
Unlink(q, id) ==
    [i \in 1..Len(q) |->
        IF q[i].product.ID = id THEN [q[i] EXCEPT !.live = FALSE] ELSE q[i]]

\* a backoff that does not grow
backoffFlat(attempt) == retryDelay

\* processWithRetry, line 184: d.retryDelay * time.Duration(1 << uint(attempt-1))
backoff(attempt) == retryDelay * (2 ^ (attempt - 1))

IdleJob ==
    [pc |-> "idle", product |-> NoProduct, live |-> FALSE, attempt |-> 0,
     fetches |-> 0, waits |-> <<>>, failed |-> 0]

\* the two callers of DetailScraper.Stop: Scheduler.Stop and the scheduler's
\* ticker goroutine
StopCallers == {"Scheduler.Stop", "ticker"}

\* no caller is inside Stop and none has called it
NoStopCalls == [c \in StopCallers |-> [pc |-> "out", calls |-> 0]]

NoCloses == [stopCh |-> 0, queue |-> 0]

ZeroStats ==
    [TotalQueued |-> 0, TotalProcessed |-> 0, TotalSuccess |-> 0,
     TotalFailed |-> 0, TotalRetries |-> 0]

\* no scrape cycle has run
NoCycle == [pc |-> "idle", pending |-> <<>>, outcomes |-> <<>>, upserted |-> {}]

\* nothing was read and no upsert has finished
NoReads == [seen |-> NoProduct, finished |-> {}]

\* no function was called on its own
NoProbe == [op |-> "none", args |-> <<>>, out |-> FALSE]

\* no goroutine has panicked
NoFault == [op |-> "none", caller |-> "none"]

\* no value of a counter is held for an increment
NoReg == 0 - 1

\* no worker pool was started, nothing was sent on the queue
NoPool ==
    [workers |-> <<>>, accepted |-> 0, started |-> 0, holders |-> <<>>,
     done |-> {}]

\* NotifyPriceChange was not called
NoFanout ==
    [pc |-> "out", version |-> 1, emailOn |-> FALSE, newPrice |-> 0,
     subs |-> <<>>, g |-> <<>>, cap |-> 0, len |-> 0, collected |-> 0]

\* no call was given to both stores
NoTwin ==
    [calls |-> 0,
     mem |-> [products |-> <<>>, history |-> <<>>,
              priceChanged |-> FALSE, oldPrice |-> 0],
     sql |-> [products |-> <<>>, history |-> <<>>,
              priceChanged |-> FALSE, oldPrice |-> 0]]

AuxInit ==
    /\ probe = NoProbe
    /\ chanFault = NoFault
    /\ pool = NoPool
    /\ fanout = NoFanout
    /\ twin = NoTwin

\* no tile was parsed; the process runs for the first time
NoIdentity == [kept |-> {}, latest |-> {}, run |-> 1]

\* worker goroutines explored (the workers argument of NewDetailScraper)
MaxWorkers == 2

\* the goroutines that increment a field of DetailScraper.stats: the workers
\* in processWithRetry, and a caller each of Enqueue and of EnqueueSingle
StatsSites ==
    ({"worker"} \X (1..MaxWorkers)) \cup {<<"Enqueue", 0>>, <<"EnqueueSingle", 0>>}

\* no goroutine is inside an increment, the mutex is free, GetStats was not
\* called
NoTally ==
    [workers |-> 1, mu |-> "free",
     thr |-> [t \in StatsSites |-> [pc |-> "idle", field |-> "", reg |-> 0]],
     begun |-> ZeroStats, got |-> ZeroStats, overlap |-> FALSE]

NoCall ==
    [op |-> "none", cand |-> NoProduct, existed |-> FALSE, prev |-> NoProduct,
     prevHist |-> <<>>, priceChanged |-> FALSE, oldPrice |-> 0,
     isNew |-> FALSE, newDispatch |-> FALSE, priceDispatch |-> FALSE,
     priceSentTo |-> {}, newInvoked |-> {}, newOk |-> {}, prevSubs |-> <<>>,
     batch |-> <<>>, accepted |-> 0, prevLen |-> 0,
     attempts |-> <<>>, outcomes |-> <<>>, err |-> "nil", fault |-> "none"]

\* the record of one UpsertProduct call
CallOf(op, cand, P, H, r, isNew) ==
    [op |-> op, cand |-> cand, existed |-> cand.ID \in DOMAIN P,
     prev |-> IF cand.ID \in DOMAIN P THEN P[cand.ID] ELSE NoProduct,
     prevHist |-> HistOf(H, cand.ID),
     priceChanged |-> r.priceChanged, oldPrice |-> r.oldPrice,
     isNew |-> isNew, newDispatch |-> isNew, priceDispatch |-> FALSE,
     priceSentTo |-> {}, newInvoked |-> {}, newOk |-> {}, prevSubs |-> <<>>,
     batch |-> <<>>, accepted |-> 0, prevLen |-> 0,
     attempts |-> <<>>, outcomes |-> <<>>, err |-> "nil", fault |-> "none"]

----------------------------------------------------------------------------
(* Initial state: an empty store, the subscriptions created, the pipeline  *)
(* idle.  st is the store wired in, detail whether a DetailScraper was set *)
(* on the scheduler, S the new-arrival subscriptions.                      *)

InitWith(stores, detail, S) ==
    /\ impl \in stores
    /\ products = EmptyMap
    /\ history = EmptyMap
    /\ now = 0
    /\ subs = S
    /\ sent = [pr \in SubIDs \X IDs |-> 0]
    /\ subscriptions = InitialSubscriptions
    /\ notificationHistory = <<>>
    /\ last = NoCall
    /\ detailScraper = detail
    /\ queue = <<>>
    /\ job = IdleJob
    /\ stats = ZeroStats
    /\ isRunning = detail
    /\ stopCh = FALSE
    /\ queueClosed = FALSE
    /\ stopCalls = NoStopCalls
    /\ closes = NoCloses
    /\ scoreArgs = [product |-> NoProduct, history |-> <<>>, at |-> 0]
    /\ scoreOut = 0
    /\ matchArgs = [product |-> NoProduct, sub |-> OpenSub("")]
    /\ matchOut = "none"
    /\ cycle = NoCycle
    /\ reader = NoReads
    /\ tally = NoTally
    /\ identity = NoIdentity
    /\ AuxInit

\* the clock advances
Tick ==
    /\ now < MaxNow
    /\ now' = now + 1
    /\ UNCHANGED <<storeVars, notifyVars, detailVars, scoreVars, matchVars,
                   last, cycle, reader, tally, identity, auxVars>>

\* Scheduler.runScrape for a catalog of one tile: upsert, dispatch, enqueue;
\* fault is the database error the upsert meets
RunScrapeIO(id, tag, ok, fault) ==
    LET cand  == parseTile(id, tag, now)
        r     == UpsertProductIO(impl, products, history, cand, now, fault)
        isNewProduct == ~r.priceChanged /\ r.oldPrice = 0
        q1    == IF impl = "Store" THEN Unlink(queue, id) ELSE queue
        q2    == IF detailScraper THEN Enqueue(q1, r.cand, impl) ELSE q1
        priceDispatch == dispatchesPriceChange(r.priceChanged, r.oldPrice)
        invoked == {s \in DOMAIN subs : invokesNotifier(subs[s], r.cand)}
    IN  /\ products' = r.products
        /\ history' = r.history
        /\ last' = [CallOf("scrape", cand, products, history, r, isNewProduct)
                      EXCEPT
                        !.priceDispatch = priceDispatch,
                        !.priceSentTo =
                            IF priceDispatch
                            THEN NotifyPriceChange(r.cand, r.oldPrice,
                                     r.cand.Price, subscriptions,
                                     GetSubscriptionsByProduct(subscriptions, id))
                            ELSE {},
                        !.newInvoked = IF isNewProduct THEN invoked ELSE {},
                        !.newOk = IF isNewProduct
                                  THEN {s \in invoked : ok[s]} ELSE {},
                        !.prevSubs = subs,
                        !.fault = IF impl = "Store" THEN "none" ELSE fault]
        /\ IF isNewProduct
           THEN /\ subs' = NotifyNewArrival(r.cand, subs, ok)
                /\ sent' = sentAfter(r.cand, subs, ok, sent)
           ELSE UNCHANGED <<subs, sent>>
        /\ queue' = q2
        /\ stats' = IF Len(q2) > Len(q1)
                    THEN [stats EXCEPT !.TotalQueued = @ + 1] ELSE stats
        /\ job' = IF impl = "Store" /\ job.product.ID = id
                  THEN [job EXCEPT !.live = FALSE] ELSE job
        /\ UNCHANGED <<impl, now, subscriptions, notificationHistory,
                       detailScraper, lifeVars, scoreVars, matchVars>>

\* a cycle of one tile in which every statement succeeds
RunScrape(id, tag, ok) ==
    /\ RunScrapeIO(id, tag, ok, "none")
    /\ UNCHANGED <<cycle, reader, tally, identity, auxVars>>

\* Store.PauseSubscription / SQLiteStore.PauseSubscription
PauseSubscription(id) ==
    /\ id \in DOMAIN subs
    /\ subs' = [subs EXCEPT ![id].Paused = TRUE]
    /\ UNCHANGED <<storeVars, now, sent, subscriptions, notificationHistory,
                   last, detailVars, scoreVars, matchVars, cycle, reader, tally, identity, auxVars>>

\* Store.ResumeSubscription / SQLiteStore.ResumeSubscription
ResumeSubscription(id) ==
    /\ id \in DOMAIN subs
    /\ subs' = [subs EXCEPT ![id].Paused = FALSE]
    /\ UNCHANGED <<storeVars, now, sent, subscriptions, notificationHistory,
                   last, detailVars, scoreVars, matchVars, cycle, reader, tally, identity, auxVars>>

\* Handlers.UpdateNewArrivalSubscription: the request keeps the ID and the
\* Bark key.  Store.UpdateNewArrivalSubscription puts the request in the
\* place of the stored record; SQLiteStore.UpdateNewArrivalSubscription
\* updates the columns of its UPDATE statement, which leaves
\* notified_product_ids and notification_count as they are
UpdateNewArrivalSubscription(id, req) ==
    /\ id \in DOMAIN subs
    /\ subs' = [subs EXCEPT ![id] =
                  IF impl = "Store"
                  THEN [req EXCEPT !.BarkKey = subs[id].BarkKey]
                  ELSE [req EXCEPT
                          !.BarkKey = subs[id].BarkKey,
                          !.NotifiedProductIDs = subs[id].NotifiedProductIDs,
                          !.NotificationCount = subs[id].NotificationCount]]
    /\ UNCHANGED <<storeVars, now, sent, subscriptions, notificationHistory,
                   last, detailVars, scoreVars, matchVars, cycle, reader, tally, identity, auxVars>>

\* Store.IncrementNotificationCount / SQLiteStore.IncrementNotificationCount
IncrementNotificationCount(id) ==
    /\ id \in DOMAIN subs
    /\ subs' = [subs EXCEPT ![id].NotificationCount = @ + 1]
    /\ UNCHANGED <<storeVars, now, sent, subscriptions, notificationHistory,
                   last, detailVars, scoreVars, matchVars, cycle, reader, tally, identity, auxVars>>

\* DetailScraper.Enqueue called with a list of products
EnqueueProducts(ps) ==
    LET q2    == EnqueueAll(queue, ps, impl)
        count == Len(q2) - Len(queue)
    IN  /\ queue' = q2
        /\ stats' = [stats EXCEPT !.TotalQueued = @ + count]
        /\ last' = [NoCall EXCEPT !.op = "enqueue", !.batch = ps,
                                  !.accepted = count, !.prevLen = Len(queue)]
        /\ UNCHANGED <<storeVars, now, notifyVars, detailScraper, job,
                       lifeVars, scoreVars, matchVars, cycle, reader, tally, identity, auxVars>>

\* DetailScraper.EnqueueSingle called with one product
EnqueueOne(p) ==
    LET q2 == EnqueueSingle(queue, p, impl)
    IN  /\ queue' = q2
        /\ stats' = [stats EXCEPT !.TotalQueued = @ + (Len(q2) - Len(queue))]
        /\ last' = [NoCall EXCEPT !.op = "enqueueSingle", !.batch = <<p>>,
                                  !.accepted = Len(q2) - Len(queue),
                                  !.prevLen = Len(queue)]
        /\ UNCHANGED <<storeVars, now, notifyVars, detailScraper, job,
                       lifeVars, scoreVars, matchVars, cycle, reader, tally, identity, auxVars>>

\* DetailScraper.worker: receive one product from the queue
Dequeue ==
    /\ job.pc \in {"idle", "done", "failed"}
    /\ queue # <<>>
    /\ job' = [IdleJob EXCEPT !.pc = "fetch", !.product = Head(queue).product,
                              !.live = Head(queue).live]
    /\ queue' = Tail(queue)
    /\ UNCHANGED <<storeVars, now, notifyVars, last, detailScraper, stats,
                   lifeVars, scoreVars, matchVars, cycle, reader, tally, identity, auxVars>>

\* DetailScraper.worker: the select takes the stopCh case, or the receive
\* from the closed and drained queue reports !ok; the worker returns.  It
\* is between items: processWithRetry does not look at stopCh
WorkerExit ==
    /\ job.pc \in {"idle", "done", "failed"}
    /\ stopCh \/ (queueClosed /\ queue = <<>>)
    /\ job' = [job EXCEPT !.pc = "exited"]
    /\ UNCHANGED <<storeVars, now, notifyVars, last, detailScraper, queue,
                   stats, lifeVars, scoreVars, matchVars, cycle, reader, tally, identity, auxVars>>

\* DetailScraper.Stop up to wg.Wait(): a call on a scraper that is not
\* running returns at once; otherwise isRunning is cleared, stopCh closed,
\* and the queue closed after the select on it received (and dropped) one
\* product if any was waiting
Stop ==
    /\ IF isRunning
       THEN /\ isRunning' = FALSE
            /\ stopCh' = TRUE
            /\ queue' = IF queue # <<>> THEN Tail(queue) ELSE queue
            /\ queueClosed' = TRUE
            /\ closes' = [stopCh |-> closes.stopCh + 1,
                          queue |-> closes.queue + 1]
       ELSE UNCHANGED <<isRunning, stopCh, queue, queueClosed, closes>>
    /\ UNCHANGED <<storeVars, now, notifyVars, last, detailScraper, job,
                   stats, stopCalls, scoreVars, matchVars, cycle, reader, tally, identity, auxVars>>

\* ScrapeProductDetails assigns into the product it was handed: when that is
\* the object the in-memory store holds, the stored record changes with it
Alias(P, live, updated) ==
    IF live /\ updated.ID \in DOMAIN P
    THEN Put(P, updated.ID, [P[updated.ID] EXCEPT
                                !.Description = updated.Description,
                                !.SpecsDetail = updated.SpecsDetail])
    ELSE P

\* processWithRetry: the loop body after ScrapeProductDetails returned
\* updated, the worker being at position pc
AttemptOn(pc, updated) ==
    LET P1      == Alias(products, job.live, updated)
        r       == UpsertProduct(impl, P1, history, updated, now)
    IN  /\ job.pc = pc
        /\ IF updated.Description # ""
           THEN /\ products' = r.products
                /\ history' = r.history
                /\ last' = CallOf("enrich", updated, P1, history, r, FALSE)
                /\ stats' = [stats EXCEPT !.TotalSuccess = @ + 1,
                                          !.TotalProcessed = @ + 1]
                /\ job' = [job EXCEPT !.pc = "done", !.product = r.cand,
                                      !.live = (impl = "Store"),
                                      !.fetches = @ + 1]
           ELSE /\ products' = P1
                /\ UNCHANGED <<history, last>>
                /\ IF job.attempt + 1 <= retryMax
                   THEN /\ job' = [job EXCEPT !.pc = "sleep",
                                              !.product = updated,
                                              !.attempt = @ + 1,
                                              !.fetches = @ + 1]
                        /\ UNCHANGED stats
                   ELSE /\ job' = [job EXCEPT !.pc = "failed",
                                              !.product = updated,
                                              !.attempt = @ + 1,
                                              !.fetches = @ + 1,
                                              !.failed = @ + 1]
                        /\ stats' = [stats EXCEPT !.TotalFailed = @ + 1,
                                                  !.TotalProcessed = @ + 1]
        /\ UNCHANGED <<impl, now, notifyVars, detailScraper, queue, lifeVars,
                       scoreVars, matchVars, cycle, tally, identity, auxVars>>

\* processWithRetry: one pass of the loop body from the fetch onwards
Attempt(page) ==
    /\ AttemptOn("fetch", ScrapeProductDetails(job.product, page))
    /\ UNCHANGED reader

\* processWithRetry: the backoff sleep that opens every pass but the first
Backoff ==
    /\ job.pc = "sleep"
    /\ job' = [job EXCEPT !.pc = "fetch",
                          !.waits = Append(@, backoff(job.attempt))]
    /\ stats' = [stats EXCEPT !.TotalRetries = @ + 1]
    /\ UNCHANGED <<storeVars, now, notifyVars, last, detailScraper, queue,
                   lifeVars, scoreVars, matchVars, cycle, reader, tally, identity, auxVars>>

----------------------------------------------------------------------------
(* Specification Spec: ingestion cycles against either store, with the     *)
(* new-arrival dispatcher and no detail scraper set                        *)

\* the tiles the catalog serves
Tiles == ({"p1"} \X PriceTags) \cup {<<"p2", <<85, 0>> >>}

\* the exploration stops growing a history at MaxHistLen rows and counting
\* sends at MaxSent
WithinBounds(id) ==
    /\ Len(HistOf(history, id)) < MaxHistLen
    /\ \A pr \in DOMAIN sent : sent[pr] < MaxSent

Init == InitWith({"Store", "SQLiteStore"}, FALSE, InitialSubs)

Cycle ==
    \E tile \in Tiles, ok \in [SubIDs -> BOOLEAN] :
        /\ WithinBounds(tile[1])
        /\ RunScrape(tile[1], tile[2], ok)

Next == Cycle

Spec == Init /\ [][Next]_vars

----------------------------------------------------------------------------
(* Properties of the ingestion cycle (specification Spec)                  *)

\* the product the latest UpsertProduct call was about, as stored now
Stored == products[last.cand.ID]

\* the history the store holds for that product now
StoredHistory == HistOf(history, last.cand.ID)

\* C1: an upsert of a stored product with a price different from the stored
\* price p returns priceChanged = true and oldPrice = p, and leaves the new
\* price stored, with either store
C1_PriceChangeDetected ==
    (last.op # "none" /\ last.existed /\ last.prev.Price # last.cand.Price)
        => /\ last.priceChanged
           /\ last.oldPrice = last.prev.Price
           /\ Stored.Price = last.cand.Price

C1_Witness ==
    /\ last.op = "scrape"
    /\ last.existed
    /\ last.prev.Price = 85
    /\ last.cand.Price = 120
    /\ last.oldPrice = 85

\* C2: a cycle flags a product as new (and hands it to new-arrival dispatch)
\* exactly when its identity was absent from the store before the upsert
C2_NewIffAbsent ==
    last.op = "scrape" =>
        /\ last.isNew <=> ~last.existed
        /\ last.newDispatch <=> ~last.existed

\* C3: the notifier is invoked successfully at most once for a subscription
\* and product pair
C3_AtMostOneSend ==
    \A pr \in DOMAIN sent : sent[pr] <= 1

\* C12: re-ingesting a stored product at its stored price returns
\* priceChanged = false and the cycle makes no price-change dispatch for it:
\* the notifier is invoked for no subscription, whatever their targets
C12_UnchangedNoDispatch ==
    (last.op = "scrape" /\ last.existed /\ last.prev.Price = last.cand.Price)
        => /\ ~last.priceChanged
           /\ ~last.priceDispatch
           /\ last.priceSentTo = {}

\* an unchanged re-ingest at 85 while subscription t2's target of 85 is met
\* and the product already has a history of earlier changes
C12_Witness ==
    /\ last.op = "scrape"
    /\ last.existed
    /\ last.prev.Price = 85
    /\ last.cand.Price = 85
    /\ Len(last.prevHist) >= 2
    /\ subscriptions["t2"].ProductID = last.cand.ID
    /\ last.cand.Price <= subscriptions["t2"].TargetPrice
    /\ ~last.priceDispatch

ScoreOf(product, h, at) ==
    IF impl = "Store" THEN calculateValueScore(product, h, at)
    ELSE CalculateValueScore(product, h, at)

\* C26: after every UpsertProduct the stored lowest and highest price are
\* the minimum and maximum over the stored history, the trend is the one the
\* last three history entries give, and the value score is the store's score
\* function applied to the stored product and history; with either store
C26_StatsRecomputed ==
    last.op # "none" =>
        /\ StoredHistory # <<>> =>
              /\ Stored.LowestPrice = MinPriceOf(StoredHistory)
              /\ Stored.HighestPrice = MaxPriceOf(StoredHistory)
        /\ Len(StoredHistory) >= 3 =>
              Stored.PriceTrend = TrendOf(StoredHistory, "stable")
        /\ Stored.ValueScore = ScoreOf(Stored, StoredHistory, now)

----------------------------------------------------------------------------
(* Specification SpecNotify: ingestion cycles for one product while its    *)
(* new-arrival subscriptions are paused, resumed, disabled and enabled     *)

InitNotify == InitWith({"Store", "SQLiteStore"}, FALSE, InitialSubs)

NotifyCycle ==
    \E tag \in { <<85, 0>>, <<120, 100>> }, ok \in [SubIDs -> BOOLEAN] :
        /\ WithinBounds("p1")
        /\ RunScrape("p1", tag, ok)

Pause == \E s \in SubIDs : PauseSubscription(s)

Resume == \E s \in SubIDs : ResumeSubscription(s)

\* update requests that echo the stored subscription with another `enabled'
SetEnabled ==
    \E s \in SubIDs, b \in BOOLEAN :
        UpdateNewArrivalSubscription(s, [subs[s] EXCEPT !.Enabled = b])

NextNotify ==
    \/ NotifyCycle
    \/ Pause
    \/ Resume
    \/ SetEnabled

SpecNotify == InitNotify /\ [][NextNotify]_vars

IDsOf(seq) == {seq[i] : i \in 1..Len(seq)}

\* C14: in a new-arrival dispatch the notifier is invoked only for
\* subscriptions that are enabled and not paused at that time
C14_NoSendWhilePaused ==
    last.op = "scrape" =>
        \A s \in last.newInvoked :
            /\ last.prevSubs[s].Enabled
            /\ ~last.prevSubs[s].Paused

\* C15: a new-arrival dispatch of product P appends P to the notified-set of
\* exactly the subscriptions whose notifier call returned success (and that
\* did not hold P already); a failed send, a non-matching product or a
\* skipped subscription leaves the notified-set as it was
C15_NotifiedOnlyOnSuccess ==
    last.op = "scrape" =>
        /\ last.newOk \subseteq last.newInvoked
        /\ \A s \in last.newInvoked :
               /\ last.prevSubs[s].Enabled
               /\ matchesSubscription(last.cand, last.prevSubs[s])
        /\ \A s \in DOMAIN subs :
               LET before == last.prevSubs[s].NotifiedProductIDs
               IN  subs[s].NotifiedProductIDs =
                       IF s \in last.newOk /\ last.cand.ID \notin IDsOf(before)
                       THEN Append(before, last.cand.ID)
                       ELSE before

\* one dispatch of a product new to both notified-sets in which the send to
\* s1 succeeded and the send to s2 failed
C15_Witness ==
    /\ last.op = "scrape"
    /\ last.newInvoked = {"s1", "s2"}
    /\ last.newOk = {"s1"}
    /\ last.prevSubs["s1"].NotifiedProductIDs = <<>>
    /\ subs["s1"].NotifiedProductIDs = <<"p1">>
    /\ subs["s2"].NotifiedProductIDs = <<>>

\* the records the latest dispatch should have appended: one per notifier call
LatestRecords ==
    LET n == Cardinality(last.newInvoked)
        len == Len(notificationHistory)
    IN  IF len < n THEN {}
        ELSE {notificationHistory[i] : i \in (len - n + 1)..len}

\* C16: every notifier call of a new-arrival dispatch left exactly one
\* NotificationRecord, `sent' on success and `failed' with the error text
\* otherwise, and every successful call raised the subscription's
\* notification counter by one
C16_AttemptsRecorded ==
    last.op = "scrape" =>
        \A s \in last.newInvoked :
            /\ Cardinality({rec \in LatestRecords :
                              /\ rec.SubscriptionID = s
                              /\ rec.ProductID = last.cand.ID
                              /\ rec.Status = IF s \in last.newOk
                                              THEN "sent" ELSE "failed"
                              /\ (rec.Status = "failed") =>
                                     rec.ErrorMessage # ""}) = 1
            /\ s \in last.newOk =>
                   subs[s].NotificationCount
                       = last.prevSubs[s].NotificationCount + 1

----------------------------------------------------------------------------
(* Specification SpecDispatch: the two dispatch functions called with any  *)
(* product, any order of the subscription list and any outcome of each     *)
(* send                                                                    *)

\* the orders in which the store can return the new-arrival subscriptions
SubOrders == { <<"s1", "s2">>, <<"s2", "s1">> }

DispatchProducts ==
    { parseTile(id, tag, 0) : id \in IDs, tag \in { <<85, 0>>, <<120, 100>> } }

\* Dispatcher.NotifyNewArrival(product, subscriptions)
DispatchNewArrival(product, order, ok) ==
    LET sentTo == newArrivalLoop(order, product, subs, ok)
    IN  /\ subs' = NotifyNewArrival(product, subs, ok)
        /\ sent' = sentAfter(product, subs, ok, sent)
        /\ last' = [NoCall EXCEPT
                      !.op = "newArrival", !.cand = product,
                      !.prevSubs = subs, !.batch = order,
                      !.attempts = sentTo, !.outcomes = ok,
                      !.err = dispatchError({i \in 1..Len(sentTo) :
                                                 ~ok[sentTo[i]]})]
        /\ UNCHANGED <<storeVars, now, subscriptions, notificationHistory,
                       detailVars, scoreVars, matchVars, cycle, reader, tally, identity, auxVars>>

\* Dispatcher.NotifyPriceChange(product, oldPrice, newPrice, subscriptions)
\* with the subscriptions of the product
DispatchPriceChange(product, oldPrice, ok) ==
    LET ids   == GetSubscriptionsByProduct(subscriptions, product.ID)
        sends == priceChangeSends(subscriptions, ids, product.Price)
    IN  /\ last' = [NoCall EXCEPT
                      !.op = "priceChange", !.cand = product,
                      !.oldPrice = oldPrice,
                      !.priceSentTo = NotifyPriceChange(product, oldPrice,
                                          product.Price, subscriptions, ids),
                      !.attempts = sends, !.outcomes = ok,
                      !.err = dispatchError({t \in ids :
                                                 sends[t] > 0 /\ ~ok[t]})]
        /\ UNCHANGED <<storeVars, now, notifyVars, detailVars, scoreVars,
                       matchVars, cycle, reader, tally, identity, auxVars>>

InitDispatch == InitWith({"Store", "SQLiteStore"}, FALSE, InitialSubs)

NewArrivalCall ==
    \E product \in DispatchProducts, order \in SubOrders,
       ok \in [SubIDs -> BOOLEAN] :
        /\ \A pr \in DOMAIN sent : sent[pr] < MaxSent
        /\ DispatchNewArrival(product, order, ok)

PriceChangeCall ==
    \E product \in DispatchProducts, oldPrice \in {85, 120},
       ok \in [PriceSubIDs -> BOOLEAN] :
        /\ oldPrice # product.Price
        /\ DispatchPriceChange(product, oldPrice, ok)

NextDispatch ==
    \/ NewArrivalCall
    \/ PriceChangeCall

SpecDispatch == InitDispatch /\ [][NextDispatch]_vars

\* C22: in both dispatch functions every eligible subscription is sent to
\* exactly once whatever the outcome of the sends to the others (a failure
\* neither stops the loop nor is retried), and the call returns no error
C22_FailuresIndependent ==
    /\ last.op = "newArrival" =>
          /\ \A s \in DOMAIN last.prevSubs :
                Occurrences(last.attempts, s) =
                    IF /\ last.prevSubs[s].Enabled
                       /\ last.prevSubs[s].BarkKey # ""
                       /\ matchesSubscription(last.cand, last.prevSubs[s])
                    THEN 1 ELSE 0
          /\ last.err = "nil"
    /\ last.op = "priceChange" =>
          /\ \A t \in DOMAIN subscriptions :
                last.attempts[t] =
                    IF /\ subscriptions[t].ProductID = last.cand.ID
                       /\ subscriptions[t].BarkKey # ""
                       /\ ~(subscriptions[t].TargetPrice > 0
                              /\ last.cand.Price > subscriptions[t].TargetPrice)
                    THEN 1 ELSE 0
          /\ last.err = "nil"

\* a new-arrival dispatch over s1 then s2 in which the send to s1 failed and
\* the send to s2 was still made, and succeeded
C22_Witness ==
    /\ last.op = "newArrival"
    /\ last.batch = <<"s1", "s2">>
    /\ ~last.outcomes["s1"]
    /\ last.outcomes["s2"]
    /\ last.attempts = <<"s1", "s2">>
    /\ subs["s2"].NotifiedProductIDs = <<"p1">>
    /\ subs["s1"].NotifiedProductIDs = <<>>
    /\ last.err = "nil"

----------------------------------------------------------------------------
(* Specification SpecSubs: the operations on stored new-arrival            *)
(* subscriptions, between dispatches that fill their notified-sets         *)

InitSubs == InitWith({"Store", "SQLiteStore"}, FALSE, InitialSubs)

\* a dispatch of the Mac at 85 in which every send succeeds
SubsDispatch ==
    /\ \A pr \in DOMAIN sent : sent[pr] < MaxSent
    /\ DispatchNewArrival(parseTile("p1", <<85, 0>>, 0), <<"s1", "s2">>,
                          [s \in SubIDs |-> TRUE])

SubsPause == PauseSubscription("s1")

SubsResume == ResumeSubscription("s1")

\* update requests for s1: the stored subscription with another `enabled',
\* sent with the notified_product_ids the client read or without that field
SubsUpdate ==
    \E b \in BOOLEAN, ids \in {subs["s1"].NotifiedProductIDs, <<>>} :
        UpdateNewArrivalSubscription("s1",
            [subs["s1"] EXCEPT !.Enabled = b, !.NotifiedProductIDs = ids])

SubsIncrement ==
    /\ subs["s1"].NotificationCount < MaxSent
    /\ IncrementNotificationCount("s1")

NextSubs ==
    \/ SubsDispatch
    \/ SubsPause
    \/ SubsResume
    \/ SubsUpdate
    \/ SubsIncrement

SpecSubs == InitSubs /\ [][NextSubs]_vars

\* C27: no operation on a stored subscription removes a product identity
\* from its notified-set
C27_NotifiedSetGrows ==
    [][\A s \in DOMAIN subs :
          IDsOf(subs[s].NotifiedProductIDs)
              \subseteq IDsOf(subs'[s].NotifiedProductIDs)]_vars

----------------------------------------------------------------------------
(* Specification SpecMatch: matchesSubscription applied to products and    *)
(* subscriptions that set any combination of filters                       *)

\* "M9", "Air", "1TB", "64GB": filter entries that no product below contains
FilterChip == <<77, 57>>

FilterModel == <<65, 105, 114>>

FilterStorage == <<49, 84, 66>>

FilterMemory == <<54, 52, 71, 66>>

MatchProducts ==
    { [parseTile(id, tag, 0) EXCEPT !.StockStatus = status] :
         id \in IDs, tag \in { <<85, 0>>, <<120, 100>> },
         status \in {"available", "sold_out"} }

MatchSubs ==
    { [OpenSub("k1") EXCEPT
          !.Categories = cats, !.Models = models, !.Chips = chips,
          !.Storages = storages, !.Memories = memories,
          !.StockStatuses = statuses, !.MinPrice = range[1],
          !.MaxPrice = range[2], !.Keywords = kws] :
         cats \in {{}, {"Mac"}}, models \in {{}, {FilterModel}},
         chips \in {{}, {FilterChip}}, storages \in {{}, {FilterStorage}},
         memories \in {{}, {FilterMemory}},
         statuses \in {{}, {"available"}},
         range \in {<<0, 0>>, <<100, 0>>, <<0, 100>>},
         kws \in {{}, {<<109, 97>>}} }

InitMatch ==
    /\ impl = "Store"
    /\ products = EmptyMap
    /\ history = EmptyMap
    /\ now = 0
    /\ subs = InitialSubs
    /\ sent = [pr \in SubIDs \X IDs |-> 0]
    /\ subscriptions = InitialSubscriptions
    /\ notificationHistory = <<>>
    /\ last = NoCall
    /\ detailScraper = FALSE
    /\ queue = <<>>
    /\ job = IdleJob
    /\ stats = ZeroStats
    /\ isRunning = FALSE
    /\ stopCh = FALSE
    /\ queueClosed = FALSE
    /\ stopCalls = NoStopCalls
    /\ closes = NoCloses
    /\ scoreArgs = [product |-> NoProduct, history |-> <<>>, at |-> 0]
    /\ scoreOut = 0
    /\ \E product \in MatchProducts, sub \in MatchSubs :
           matchArgs = [product |-> product, sub |-> sub]
    /\ matchOut = "none"
    /\ cycle = NoCycle
    /\ reader = NoReads
    /\ tally = NoTally
    /\ identity = NoIdentity
    /\ AuxInit

\* Dispatcher.matchesSubscription applied to the arguments
Match ==
    /\ matchOut = "none"
    /\ matchOut' = IF matchesSubscription(matchArgs.product, matchArgs.sub)
                    THEN "match" ELSE "skip"
    /\ UNCHANGED <<storeVars, now, notifyVars, last, detailVars, scoreVars,
                   matchArgs, cycle, reader, tally, identity, auxVars>>

NextMatch == Match

SpecMatch == InitMatch /\ [][NextMatch]_vars

\* some entry of a filter list occurs in the product's name or raw spec
\* string, whatever the case of the letters
OccursIn(product, entries) ==
    \E e \in entries :
        \/ containsIgnoreCase(product.Name, e)
        \/ containsIgnoreCase(product.Specs, e)

\* the product satisfies every filter the subscription supplies
SatisfiesEveryFilter(product, sub) ==
    /\ sub.Categories # {} => product.Category \in sub.Categories
    /\ sub.Models # {} => OccursIn(product, sub.Models)
    /\ sub.Chips # {} => OccursIn(product, sub.Chips)
    /\ sub.Storages # {} => OccursIn(product, sub.Storages)
    /\ sub.Memories # {} => OccursIn(product, sub.Memories)
    /\ sub.Keywords # {} => OccursIn(product, sub.Keywords)
    /\ sub.MinPrice > 0 => product.Price >= sub.MinPrice
    /\ sub.MaxPrice > 0 => product.Price <= sub.MaxPrice
    /\ sub.StockStatuses # {} => product.StockStatus \in sub.StockStatuses

\* C17: matchesSubscription(P, S) is true exactly when P satisfies every
\* filter S supplies: category, model, chip, storage, memory, keyword,
\* price range and stock status
C17_AllFiltersApplied ==
    matchOut # "none" =>
        (matchOut = "match"
            <=> SatisfiesEveryFilter(matchArgs.product, matchArgs.sub))

----------------------------------------------------------------------------
(* Specification SpecQueue: Enqueue and EnqueueSingle called on a detail   *)
(* scraper whose workers were not started and whose queue is nearly full   *)

\* the records handed to the queue: fresh, already described, without a
\* product URL, and from the hk region
QueueProducts ==
    LET fresh == parseTile("p1", <<85, 0>>, 0)
    IN  { fresh,
          [fresh EXCEPT !.Description = "overview"],
          [fresh EXCEPT !.ProductURL = ""],
          [parseTile("p2", <<85, 0>>, 0) EXCEPT !.Region = "hk"] }

RECURSIVE BatchesUpTo(_)
BatchesUpTo(n) ==
    IF n = 0 THEN {<<>>}
    ELSE LET shorter == BatchesUpTo(n - 1)
         IN  shorter \cup
             { Append(b, p) : b \in {x \in shorter : Len(x) = n - 1},
                              p \in QueueProducts }

\* the state after queueCap - MaxFree fresh products were enqueued
InitQueue ==
    /\ impl = "SQLiteStore"
    /\ products = EmptyMap
    /\ history = EmptyMap
    /\ now = 0
    /\ subs = DisabledSubs
    /\ sent = [pr \in SubIDs \X IDs |-> 0]
    /\ subscriptions = InitialSubscriptions
    /\ notificationHistory = <<>>
    /\ last = NoCall
    /\ detailScraper = TRUE
    /\ queue = [i \in 1..(queueCap - MaxFree) |->
                   [product |-> parseTile("p1", <<85, 0>>, 0), live |-> FALSE]]
    /\ job = IdleJob
    /\ stats = [ZeroStats EXCEPT !.TotalQueued = queueCap - MaxFree]
    /\ isRunning = FALSE
    /\ stopCh = FALSE
    /\ queueClosed = FALSE
    /\ stopCalls = NoStopCalls
    /\ closes = NoCloses
    /\ scoreArgs = [product |-> NoProduct, history |-> <<>>, at |-> 0]
    /\ scoreOut = 0
    /\ matchArgs = [product |-> NoProduct, sub |-> OpenSub("")]
    /\ matchOut = "none"
    /\ cycle = NoCycle
    /\ reader = NoReads
    /\ tally = NoTally
    /\ identity = NoIdentity
    /\ AuxInit

EnqueueList == \E ps \in BatchesUpTo(MaxBatch) \ {<<>>} : EnqueueProducts(ps)

EnqueueItem == \E p \in QueueProducts : EnqueueOne(p)

NextQueue ==
    \/ EnqueueList
    \/ EnqueueItem

SpecQueue == InitQueue /\ [][NextQueue]_vars

\* the entries the latest call appended
Added == SubSeq(queue, last.prevLen + 1, Len(queue))

\* C18: Enqueue and EnqueueSingle accept a record only if it has no
\* description yet, its region is not hk and the queue has room; the count
\* returned is the number of records accepted, and an accepted record
\* enters the queue once for each time it was handed in
C18_AdmissionRule ==
    last.op \in {"enqueue", "enqueueSingle"} =>
        /\ Len(queue) <= queueCap
        /\ Len(Added) = last.accepted
        /\ \A i \in 1..Len(Added) :
               /\ Added[i].product.Description = ""
               /\ Added[i].product.Region # "hk"
               /\ Occurrences(Added, Added[i])
                      <= Occurrences(last.batch, Added[i].product)

\* C19: the queue never holds more than queueCap entries; a call made on a
\* full queue can always be taken (it does not wait for a worker), accepts
\* nothing and leaves the queue and TotalQueued as they were
C19_FullQueueDrops ==
    /\ [](Len(queue) <= queueCap)
    /\ [](Len(queue) = queueCap =>
              /\ ENABLED EnqueueProducts(<<parseTile("p1", <<85, 0>>, 0)>>)
              /\ ENABLED EnqueueOne(parseTile("p1", <<85, 0>>, 0)))
    /\ []((last.op \in {"enqueue", "enqueueSingle"}
              /\ last.prevLen = queueCap) => last.accepted = 0)
    /\ [][Len(queue) = queueCap =>
              /\ queue' = queue
              /\ stats'.TotalQueued = stats.TotalQueued]_vars

\* a fresh product handed to Enqueue while the queue held queueCap entries
C19_Witness ==
    /\ last.op = "enqueue"
    /\ last.prevLen = queueCap
    /\ admissible(last.batch[1])
    /\ last.accepted = 0
    /\ Len(queue) = queueCap
    /\ stats.TotalQueued = queueCap
    /\ job.pc = "idle"

----------------------------------------------------------------------------
(* Specification SpecReingest: the re-ingest scenario, one product offered *)
(* at 8000 and at 7500 beside a second product whose price does not move  *)

ScenarioTiles ==
    ({"p1"} \X { <<8000, 0>>, <<7500, 0>> }) \cup { <<"p2", <<85, 0>> >> }

InitReingest == InitWith({"Store", "SQLiteStore"}, FALSE, InitialSubs)

ReingestCycle ==
    \E tile \in ScenarioTiles, ok \in [SubIDs -> BOOLEAN] :
        /\ WithinBounds(tile[1])
        /\ RunScrape(tile[1], tile[2], ok)

NextReingest == ReingestCycle

SpecReingest == InitReingest /\ [][NextReingest]_vars

PricesOf(h) == [i \in 1..Len(h) |-> h[i].Price]

\* C11: P ingested as new at 8000 and then re-ingested at 7500: the second
\* upsert returns priceChanged = true and oldPrice = 8000, the history is
\* [8000, 7500], the stored lowest price is 7500 and the highest 8000.
\* (Before its first price change a product stored at 8000 has the history
\* [8000] in the in-memory store and none in the SQLite store.)
C11_ReingestScenario ==
    (/\ last.op = "scrape"
     /\ last.existed
     /\ last.prev.Price = 8000
     /\ last.cand.Price = 7500
     /\ PricesOf(last.prevHist) \in {<<>>, <<8000>>})
        => /\ last.priceChanged
           /\ last.oldPrice = 8000
           /\ PricesOf(StoredHistory) = <<8000, 7500>>
           /\ Stored.LowestPrice = 7500
           /\ Stored.HighestPrice = 8000

----------------------------------------------------------------------------
(* Specification SpecFault: ingestion cycles in which the statements of    *)
(* SQLiteStore.UpsertProduct can fail; no subscription is enabled          *)

InitFault == InitWith({"Store", "SQLiteStore"}, FALSE, DisabledSubs)

FaultCycle ==
    \E tile \in Tiles, fault \in Faults :
        /\ Len(HistOf(history, tile[1])) < MaxHistLen
        /\ RunScrapeIO(tile[1], tile[2], [s \in SubIDs |-> FALSE], fault)
        /\ UNCHANGED <<cycle, reader, tally, identity, auxVars>>

NextFault == FaultCycle

SpecFault == InitFault /\ [][NextFault]_vars

\* C24: an UpsertProduct call that met a storage error does not return what
\* the successful insertion of a new product returns, and the cycle does not
\* take the product for a new one
C24_UpsertErrorVisible ==
    (last.op = "scrape" /\ last.fault # "none") =>
        /\ ~(~last.priceChanged /\ last.oldPrice = 0)
        /\ ~last.isNew
        /\ ~last.newDispatch

----------------------------------------------------------------------------
(* Specification SpecCatalog: scrape cycles over two category pages, each  *)
(* of which can be served, fail to be fetched, or fail to be parsed        *)

\* the category pages of ScrapeRegion the model carries
Categories == {"Mac", "iPad"}

\* what scrapeCategoryPage can meet: a page with tiles; a failed fetch; a
\* page without the bootstrap variable, with unbalanced braces or invalid
\* JSON; a page on which the bootstrap variable's `=' is followed by
\* something other than `{' less than ten bytes before the end of the page
PageOutcomes == {"tiles", "fetchError", "parseError", "truncated"}

\* the tiles a category page serves: the Mac page p1, the iPad page p2
TilesOf(category, tag) ==
    IF category = "Mac" THEN << <<"p1", tag>> >> ELSE << <<"p2", <<85, 0>> >> >>

\* AppleScraper.scrapeCategoryPage and extractBootstrapData.  On the last
\* outcome building the error message evaluates html[startIdx:startIdx+10]
\* beyond the end of the page, which panics
scrapeCategoryPage(category, outcome, tag) ==
    [products |-> IF outcome = "tiles" THEN TilesOf(category, tag) ELSE <<>>,
     err      |-> outcome \in {"fetchError", "parseError"},
     panic    |-> outcome = "truncated"]

\* AppleScraper.ScrapeRegion: one goroutine per category appends its
\* products unless scrapeCategoryPage returned an error; order is the order
\* in which the goroutines append.  A panic in a goroutine ends the process
ScrapeRegion(outcomes, tag, order) ==
    LET page(i) == scrapeCategoryPage(order[i], outcomes[order[i]], tag)
    IN  [products |-> (IF page(1).err THEN <<>> ELSE page(1).products)
                          \o (IF page(2).err THEN <<>> ELSE page(2).products),
         panic    |-> page(1).panic \/ page(2).panic]

\* Scheduler.runScrape up to the loop over the products: ScrapeAll
CycleStart(outcomes, tag, order) ==
    LET scraped == ScrapeRegion(outcomes, tag, order)
    IN  /\ cycle.pc \in {"idle", "complete"}
        /\ cycle' = [pc       |-> IF scraped.panic THEN "crashed" ELSE "upsert",
                     pending  |-> IF scraped.panic THEN <<>> ELSE scraped.products,
                     outcomes |-> outcomes,
                     upserted |-> {}]
        /\ UNCHANGED <<storeVars, now, notifyVars, last, detailVars,
                       scoreVars, matchVars, reader, tally, identity, auxVars>>

\* Scheduler.runScrape: one pass of the loop over the scraped products
CycleUpsert ==
    /\ cycle.pc = "upsert"
    /\ cycle.pending # <<>>
    /\ RunScrapeIO(Head(cycle.pending)[1], Head(cycle.pending)[2],
                   [s \in SubIDs |-> FALSE], "none")
    /\ cycle' = [cycle EXCEPT !.pending = Tail(@),
                              !.upserted = @ \cup {Head(cycle.pending)[1]}]
    /\ UNCHANGED <<reader, tally, identity, auxVars>>

\* Scheduler.runScrape after the loop: the cycle is recorded as a success
CycleEnd ==
    /\ cycle.pc = "upsert"
    /\ cycle.pending = <<>>
    /\ cycle' = [cycle EXCEPT !.pc = "complete"]
    /\ UNCHANGED <<storeVars, now, notifyVars, last, detailVars, scoreVars,
                   matchVars, reader, tally, identity, auxVars>>

InitCatalog == InitWith({"Store", "SQLiteStore"}, FALSE, DisabledSubs)

CatalogScrape ==
    \E outcomes \in [Categories -> PageOutcomes],
       tag \in { <<85, 0>>, <<120, 100>> },
       order \in { <<"Mac", "iPad">>, <<"iPad", "Mac">> } :
        /\ Len(HistOf(history, "p1")) < MaxHistLen
        /\ CycleStart(outcomes, tag, order)

NextCatalog ==
    \/ CatalogScrape
    \/ CycleUpsert
    \/ CycleEnd

SpecCatalog == InitCatalog /\ [][NextCatalog]_vars

\* C25: a cycle in which a category page failed to be fetched or parsed is
\* not aborted; it upserts no candidate of that category and every candidate
\* of the categories whose pages were served
C25_CategoryFailureIsolated ==
    /\ cycle.pc # "crashed"
    /\ cycle.pc = "complete" =>
          cycle.upserted =
              {TilesOf(c, <<85, 0>>)[1][1] :
                  c \in {d \in Categories : cycle.outcomes[d] = "tiles"}}
    /\ cycle.pc = "upsert" =>
          \A c \in Categories :
              cycle.outcomes[c] # "tiles" =>
                  TilesOf(c, <<85, 0>>)[1][1] \notin cycle.upserted

----------------------------------------------------------------------------
(* Specification SpecClock: one product re-ingested while the clock        *)
(* advances, so that candidates carry creation times other than the stored *)

InitClock == InitWith({"Store", "SQLiteStore"}, FALSE, DisabledSubs)

ClockCycle ==
    \E tag \in PriceTags :
        /\ Len(HistOf(history, "p1")) < MaxHistLen
        /\ RunScrape("p1", tag, [s \in SubIDs |-> FALSE])

NextClock ==
    \/ Tick
    \/ ClockCycle

SpecClock == InitClock /\ [][NextClock]_vars

\* C7: an upsert of a stored identity leaves its creation timestamp and its
\* ID as they were, whatever the candidate carries
C7_CreatedAtImmutable ==
    [][\A id \in DOMAIN products :
          /\ id \in DOMAIN products'
          /\ products'[id].CreatedAt = products[id].CreatedAt
          /\ products'[id].ID = id]_vars

C7_Witness ==
    /\ last.op = "scrape"
    /\ last.existed
    /\ last.cand.CreatedAt # last.prev.CreatedAt
    /\ Stored.CreatedAt = last.prev.CreatedAt

\* C9: a price change from p to q appends exactly one history entry, which
\* carries p; an upsert at the stored price appends nothing
C9_HistoryAppendsPrevious ==
    (last.op # "none" /\ last.existed) =>
        IF last.prev.Price # last.cand.Price
        THEN /\ Len(StoredHistory) = Len(last.prevHist) + 1
             /\ SubSeq(StoredHistory, 1, Len(last.prevHist)) = last.prevHist
             /\ StoredHistory[Len(StoredHistory)].Price = last.prev.Price
        ELSE StoredHistory = last.prevHist

C9_Witness ==
    /\ last.op = "scrape"
    /\ last.existed
    /\ last.prev.Price = 120
    /\ last.cand.Price = 85
    /\ Len(StoredHistory) >= 2
    /\ StoredHistory[Len(StoredHistory)].Price = 120

\* C10: after the first upsert of an unseen identity the product's history
\* is exactly one entry at the candidate's price, with either store
C10_FirstHistoryEntry ==
    (last.op # "none" /\ ~last.existed) =>
        /\ Len(StoredHistory) = 1
        /\ StoredHistory[1].Price = last.cand.Price

----------------------------------------------------------------------------
(* Specification SpecHistory: one product whose price keeps changing, far  *)
(* enough to fill the history window; no subscription is enabled           *)

InitHistory == InitWith({"Store", "SQLiteStore"}, FALSE, DisabledSubs)

PriceChanges ==
    \E tag \in {<<85, 0>>, <<120, 100>>} :
        /\ Len(HistOf(history, "p1")) < maxHistoryPerProduct + MaxOverflow
        /\ RunScrape("p1", tag, [s \in SubIDs |-> FALSE])

NextHistory == PriceChanges

SpecHistory == InitHistory /\ [][NextHistory]_vars

\* C4: a product's stored history never holds more than
\* maxHistoryPerProduct entries, and an append to a full history evicts the
\* oldest entry
C4_HistoryWindow ==
    /\ \A id \in DOMAIN history : Len(history[id]) <= maxHistoryPerProduct
    /\ (last.op # "none" /\ last.existed /\ last.prev.Price # last.cand.Price
          /\ Len(last.prevHist) = maxHistoryPerProduct)
        => /\ SubSeq(StoredHistory, 1, maxHistoryPerProduct - 1)
                = Tail(last.prevHist)
           /\ StoredHistory[maxHistoryPerProduct].Price = last.prev.Price

----------------------------------------------------------------------------
(* Specification SpecEnrich: ingestion cycles with a DetailScraper set on  *)
(* the scheduler and one worker draining its queue                         *)

InitEnrich == InitWith({"Store", "SQLiteStore"}, TRUE, DisabledSubs)

EnrichCycle ==
    \E tile \in Tiles :
        /\ Len(HistOf(history, tile[1])) < MaxHistLen
        /\ stats.TotalQueued < MaxItems
        /\ RunScrape(tile[1], tile[2], [s \in SubIDs |-> FALSE])

Fetch == \E page \in Pages : Attempt(page)

NextEnrich ==
    \/ EnrichCycle
    \/ Dequeue
    \/ Fetch
    \/ Backoff

SpecEnrich == InitEnrich /\ [][NextEnrich]_vars

RECURSIVE StrictlyIncreasing(_)
StrictlyIncreasing(w) ==
    Len(w) < 2 \/ (w[1] < w[2] /\ StrictlyIncreasing(Tail(w)))

C8_EnrichmentKept ==
    (last.op = "scrape" /\ last.existed) =>
        /\ last.prev.Description # "" => Stored.Description = last.prev.Description
        /\ last.prev.SpecsDetail = "detail" => Stored.SpecsDetail = "detail"

\* C23: the first attempt on a dequeued item that obtains a description or
\* structured detail fields stores the enriched record through UpsertProduct,
\* counts the item once as succeeded and ends the retries: the worker makes
\* no further attempt on the item
C23_FirstDataPersists ==
    /\ [][(/\ job.pc = "fetch"
           /\ job'.fetches = job.fetches + 1
           /\ \/ job'.product.Description # ""
              \/ job'.product.SpecsDetail = "detail")
            => /\ job'.pc = "done"
               /\ last'.op = "enrich"
               /\ last'.cand.ID = job.product.ID
               /\ stats'.TotalSuccess = stats.TotalSuccess + 1]_vars
    /\ [][job.pc = "done" =>
            \/ job'.pc = "done" /\ job'.fetches = job.fetches
            \/ /\ job'.pc = "fetch"
               /\ job'.fetches = 0
               /\ queue # <<>>
               /\ queue' = Tail(queue)]_vars

----------------------------------------------------------------------------
(* Specification SpecRead: store reads beside the writers.  The write of   *)
(* ScrapeProductDetails into the product it was handed is taken one        *)
(* assignment at a time, and a reader may call GetProduct between any two  *)
(* steps of the cycle and of the worker                                    *)

\* ScrapeProductDetails up to `product.Description = description`: the page
\* was fetched and the first of the two fields is assigned, in the stored
\* object when the worker holds the pointer the in-memory store keeps
AssignDescription(page) ==
    LET description == ScrapeProductDetails(job.product, page).Description
        id          == job.product.ID
    IN  /\ job.pc = "fetch"
        /\ job.product.ProductURL # ""
        /\ page # "error"
        /\ products' = IF job.live /\ id \in DOMAIN products
                       THEN Put(products, id,
                                [products[id] EXCEPT
                                    !.Description = description])
                       ELSE products
        /\ job' = [job EXCEPT !.pc = "assign",
                              !.product.Description = description]
        /\ UNCHANGED <<impl, history, now, notifyVars, last, detailScraper,
                       queue, stats, lifeVars, scoreVars, matchVars, cycle,
                       reader, tally, identity, auxVars>>

\* ScrapeProductDetails from `product.SpecsDetail = ...` to its return, and
\* the rest of the pass of processWithRetry; a record that UpsertProduct
\* stored is a finished upsert
AssignSpecsDetail ==
    LET updated == [job.product EXCEPT !.SpecsDetail = "detail"]
    IN  /\ AttemptOn("assign", updated)
        /\ reader' = IF updated.Description # ""
                     THEN [reader EXCEPT
                              !.finished = @ \cup {products'[updated.ID]}]
                     ELSE reader

\* both fetches of ScrapeProductDetails fail: nothing is assigned
FetchFails == Attempt("error")

\* Store.GetProduct / SQLiteStore.GetProduct: the in-memory store hands out
\* the stored object, whose fields the caller reads as they are then; the
\* SQLite store builds the record from the row
GetProduct(id) ==
    /\ id \in DOMAIN products
    /\ reader' = [reader EXCEPT !.seen = products[id]]
    /\ UNCHANGED <<storeVars, now, notifyVars, last, detailVars, scoreVars,
                   matchVars, cycle, tally, identity, auxVars>>

InitRead == InitWith({"Store", "SQLiteStore"}, TRUE, DisabledSubs)

\* the catalog read by the cycles holds one product, at one of two prices
ReadTiles == {"p1"} \X { <<85, 0>>, <<120, 100>> }

ReadCycle ==
    \E tile \in ReadTiles :
        /\ Len(HistOf(history, tile[1])) < MaxHistLen
        /\ stats.TotalQueued < MaxItems
        /\ RunScrapeIO(tile[1], tile[2], [s \in SubIDs |-> FALSE], "none")
        /\ reader' = [reader EXCEPT
                         !.finished = @ \cup {products'[tile[1]]}]
        /\ UNCHANGED <<cycle, tally, identity, auxVars>>

ReadFetch == \E page \in Pages : AssignDescription(page)

ReadProduct == \E id \in DOMAIN products : GetProduct(id)

NextRead ==
    \/ ReadCycle
    \/ Dequeue
    \/ ReadFetch
    \/ FetchFails
    \/ AssignSpecsDetail
    \/ Backoff
    \/ ReadProduct

SpecRead == InitRead /\ [][NextRead]_vars

\* C28: every product record a reader of the store sees equals the complete
\* record that some finished upsert stored, never a mix of fields from
\* before and after a change, also while the enrichment worker is updating
\* that product
C28_NoTornRead ==
    reader.seen # NoProduct => reader.seen \in reader.finished

----------------------------------------------------------------------------
(* Specification SpecStats: the running totals of the detail scraper, each *)
(* `d.stats.X++` taken as the load and the store it is, beside callers of  *)
(* GetStats                                                                *)

\* increments explored
MaxIncrements == 3

\* the totals a goroutine increments
FieldsOf(t) ==
    IF t[1] = "worker"
    THEN {"TotalRetries", "TotalSuccess", "TotalProcessed", "TotalFailed"}
    ELSE {"TotalQueued"}

\* Enqueue runs between d.mu.Lock() and the deferred Unlock; processWithRetry
\* and EnqueueSingle take no lock
HoldsMu(t) == t[1] = "Enqueue"

SumOf(st) ==
    st.TotalQueued + st.TotalProcessed + st.TotalSuccess + st.TotalFailed
        + st.TotalRetries

\* `d.stats.f++`: the value of the counter is loaded
IncLoad(t, f) ==
    /\ tally.thr[t].pc = "idle"
    /\ t[1] = "worker" => t[2] <= tally.workers
    /\ HoldsMu(t) => tally.mu = "free"
    /\ tally' = [tally EXCEPT
                    !.thr[t] = [pc |-> "loaded", field |-> f, reg |-> stats[f]],
                    !.mu = IF HoldsMu(t) THEN "writer" ELSE @,
                    !.begun[f] = @ + 1]
    /\ UNCHANGED <<storeVars, now, notifyVars, last, detailVars, scoreVars,
                   matchVars, cycle, reader, identity, auxVars>>

\* `d.stats.f++`: the loaded value plus one is stored
IncStore(t) ==
    /\ tally.thr[t].pc = "loaded"
    /\ stats' = [stats EXCEPT ![tally.thr[t].field] = tally.thr[t].reg + 1]
    /\ tally' = [tally EXCEPT
                    !.thr[t] = [pc |-> "idle", field |-> "", reg |-> 0],
                    !.mu = IF HoldsMu(t) THEN "free" ELSE @]
    /\ UNCHANGED <<storeVars, now, notifyVars, last, detailScraper, queue, job,
                   lifeVars, scoreVars, matchVars, cycle, reader, identity, auxVars>>

\* DetailScraper.GetStats: under d.mu.RLock() the totals are copied
GetStats ==
    /\ tally.mu = "free"
    /\ tally' = [tally EXCEPT
                    !.got = stats,
                    !.overlap = \E t \in StatsSites : tally.thr[t].pc = "loaded"]
    /\ UNCHANGED <<storeVars, now, notifyVars, last, detailVars, scoreVars,
                   matchVars, cycle, reader, identity, auxVars>>

InitStats ==
    /\ impl = "SQLiteStore"
    /\ products = EmptyMap
    /\ history = EmptyMap
    /\ now = 0
    /\ subs = DisabledSubs
    /\ sent = [pr \in SubIDs \X IDs |-> 0]
    /\ subscriptions = InitialSubscriptions
    /\ notificationHistory = <<>>
    /\ last = NoCall
    /\ detailScraper = TRUE
    /\ queue = <<>>
    /\ job = IdleJob
    /\ stats = ZeroStats
    /\ isRunning = TRUE
    /\ stopCh = FALSE
    /\ queueClosed = FALSE
    /\ stopCalls = NoStopCalls
    /\ closes = NoCloses
    /\ scoreArgs = [product |-> NoProduct, history |-> <<>>, at |-> 0]
    /\ scoreOut = 0
    /\ matchArgs = [product |-> NoProduct, sub |-> OpenSub("")]
    /\ matchOut = "none"
    /\ cycle = NoCycle
    /\ reader = NoReads
    /\ \E n \in 1..MaxWorkers : tally = [NoTally EXCEPT !.workers = n]
    /\ identity = NoIdentity
    /\ AuxInit

StatsBegin ==
    \E t \in StatsSites :
        \E f \in FieldsOf(t) :
            /\ SumOf(tally.begun) < MaxIncrements
            /\ IncLoad(t, f)

StatsEnd == \E t \in StatsSites : IncStore(t)

NextStats ==
    \/ StatsBegin
    \/ StatsEnd
    \/ GetStats

SpecStats == InitStats /\ [][NextStats]_vars

\* C29: every increment of a running total is made by a goroutine that
\* holds d.mu, GetStats never copies the totals while an increment is between
\* its load and its store, and once no increment is in progress every total
\* equals the number of increments made to it (none was lost)
C29_TotalsUnderLock ==
    /\ \A t \in StatsSites :
           tally.thr[t].pc = "loaded" => (HoldsMu(t) /\ tally.mu = "writer")
    /\ ~tally.overlap
    /\ (\A t \in StatsSites : tally.thr[t].pc = "idle") => stats = tally.begun

----------------------------------------------------------------------------
(* Specification SpecStop: the enrichment pipeline of SpecEnrich with the  *)
(* detail scraper being stopped at any moment; cycles are explored up to   *)
(* the closing of the queue                                                *)

InitStop == InitWith({"Store", "SQLiteStore"}, TRUE, DisabledSubs)

StopCycle ==
    /\ ~queueClosed
    /\ EnrichCycle

NextStop ==
    \/ StopCycle
    \/ Dequeue
    \/ Fetch
    \/ Backoff
    \/ Stop
    \/ WorkerExit

SpecStop == InitStop /\ [][NextStop]_vars

\* C20: once stopCh is closed the worker finishes the item it is working on
\* (it does not leave in the middle of it) and begins no further item,
\* however many are still queued
C20_NoNewItemAfterStop ==
    /\ [][(stopCh /\ job.pc \in {"fetch", "sleep"}) =>
              job'.pc # "exited"]_vars
    /\ [][(stopCh /\ job.pc \in {"idle", "done", "failed"}) =>
              job'.pc # "fetch"]_vars

----------------------------------------------------------------------------
(* Specification SpecShutdown: a detail scraper that is started once and   *)
(* whose Stop is called by Scheduler.Stop and by the ticker goroutine, in  *)
(* any order and interleaving, before and after Start, while the worker    *)
(* drains the queue                                                        *)

\* calls of Stop explored per caller
MaxStopCalls == 2

\* DetailScraper.Start: returns at once on a running scraper; otherwise sets
\* isRunning and starts the worker
Start ==
    /\ IF isRunning
       THEN UNCHANGED <<isRunning, job>>
       ELSE /\ isRunning' = TRUE
            /\ job' = [job EXCEPT !.pc = "idle"]
    /\ UNCHANGED <<storeVars, now, notifyVars, last, detailScraper, queue,
                   stats, stopCh, queueClosed, stopCalls, closes, scoreVars,
                   matchVars, cycle, reader, tally, identity, auxVars>>

\* an entry test that leaves isRunning set
StopEnterKeepRunning(c) ==
    /\ stopCalls[c].pc = "out"
    /\ stopCalls' = [stopCalls EXCEPT
                        ![c].calls = @ + 1,
                        ![c].pc = IF isRunning THEN "closeStop" ELSE "out"]
    /\ UNCHANGED <<storeVars, now, notifyVars, last, detailScraper, queue,
                   job, stats, isRunning, stopCh, queueClosed, closes,
                   scoreVars, matchVars, cycle, reader, tally, identity, auxVars>>

\* DetailScraper.Stop, lines 74-80: under d.mu the call returns if the
\* scraper is not running, and clears isRunning otherwise
StopEnter(c) ==
    /\ stopCalls[c].pc = "out"
    /\ stopCalls' = [stopCalls EXCEPT
                        ![c].calls = @ + 1,
                        ![c].pc = IF isRunning THEN "closeStop" ELSE "out"]
    /\ isRunning' = FALSE
    /\ UNCHANGED <<storeVars, now, notifyVars, last, detailScraper, queue,
                   job, stats, stopCh, queueClosed, closes, scoreVars,
                   matchVars, cycle, reader, tally, identity, auxVars>>

\* DetailScraper.Stop, lines 83-88: stopCh is closed unless a receive from
\* it shows that it is closed
StopSignal(c) ==
    /\ stopCalls[c].pc = "closeStop"
    /\ stopCalls' = [stopCalls EXCEPT ![c].pc = "closeQueue"]
    /\ IF stopCh
       THEN UNCHANGED <<stopCh, closes>>
       ELSE /\ stopCh' = TRUE
            /\ closes' = [closes EXCEPT !.stopCh = @ + 1]
    /\ UNCHANGED <<storeVars, now, notifyVars, last, detailScraper, queue,
                   job, stats, isRunning, queueClosed, scoreVars, matchVars, cycle, reader, tally, identity, auxVars>>

\* DetailScraper.Stop, lines 90-97: a product waiting in the queue is
\* received (ok) and the queue closed; a closed and drained queue yields !ok
\* and is left alone; an open and empty queue takes the default case and is
\* closed
StopQueue(c) ==
    /\ stopCalls[c].pc = "closeQueue"
    /\ stopCalls' = [stopCalls EXCEPT ![c].pc = "wait"]
    /\ IF queue # <<>>
       THEN /\ queue' = Tail(queue)
            /\ queueClosed' = TRUE
            /\ closes' = [closes EXCEPT !.queue = @ + 1]
       ELSE IF queueClosed
       THEN UNCHANGED <<queue, queueClosed, closes>>
       ELSE /\ queueClosed' = TRUE
            /\ closes' = [closes EXCEPT !.queue = @ + 1]
            /\ UNCHANGED queue
    /\ UNCHANGED <<storeVars, now, notifyVars, last, detailScraper, job,
                   stats, isRunning, stopCh, scoreVars, matchVars, cycle, reader, tally, identity, auxVars>>

\* DetailScraper.Stop, line 99: wg.Wait() returns once the worker returned
StopReturn(c) ==
    /\ stopCalls[c].pc = "wait"
    /\ job.pc = "exited"
    /\ stopCalls' = [stopCalls EXCEPT ![c].pc = "out"]
    /\ UNCHANGED <<storeVars, now, notifyVars, last, detailScraper, queue,
                   job, stats, isRunning, stopCh, queueClosed, closes,
                   scoreVars, matchVars, cycle, reader, tally, identity, auxVars>>

\* a scheduler with a detail scraper set, before Scheduler.Start
InitShutdown ==
    /\ impl \in {"Store", "SQLiteStore"}
    /\ products = EmptyMap
    /\ history = EmptyMap
    /\ now = 0
    /\ subs = DisabledSubs
    /\ sent = [pr \in SubIDs \X IDs |-> 0]
    /\ subscriptions = InitialSubscriptions
    /\ notificationHistory = <<>>
    /\ last = NoCall
    /\ detailScraper = TRUE
    /\ queue = <<>>
    /\ job = [IdleJob EXCEPT !.pc = "unstarted"]
    /\ stats = ZeroStats
    /\ isRunning = FALSE
    /\ stopCh = FALSE
    /\ queueClosed = FALSE
    /\ stopCalls = NoStopCalls
    /\ closes = NoCloses
    /\ scoreArgs = [product |-> NoProduct, history |-> <<>>, at |-> 0]
    /\ scoreOut = 0
    /\ matchArgs = [product |-> NoProduct, sub |-> OpenSub("")]
    /\ matchOut = "none"
    /\ cycle = NoCycle
    /\ reader = NoReads
    /\ tally = NoTally
    /\ identity = NoIdentity
    /\ AuxInit

\* cycles are explored up to the closing of the queue
ShutdownCycle ==
    /\ ~queueClosed
    /\ Len(HistOf(history, "p1")) < MaxHistLen
    /\ stats.TotalQueued < MaxItems
    /\ RunScrape("p1", <<85, 0>>, [s \in SubIDs |-> FALSE])

\* the scraper is started once: Start is explored while no worker was started
StartScraper ==
    /\ job.pc = "unstarted"
    /\ Start

StopBegin ==
    \E c \in StopCallers :
        /\ stopCalls[c].calls < MaxStopCalls
        /\ StopEnter(c)

StopStep == \E c \in StopCallers : StopSignal(c) \/ StopQueue(c)

StopEnd == \E c \in StopCallers : StopReturn(c)

NextShutdown ==
    \/ ShutdownCycle
    \/ StartScraper
    \/ StopBegin
    \/ StopStep
    \/ StopEnd
    \/ Dequeue
    \/ Fetch
    \/ Backoff
    \/ WorkerExit

SpecShutdown == InitShutdown /\ [][NextShutdown]_vars

\* a call of Stop begins
StopBegins(c) == stopCalls'[c].calls > stopCalls[c].calls

\* the call that begins is not the one that shuts the scraper down: an
\* earlier call has passed the isRunning test, or the scraper was not started
Redundant ==
    \/ stopCh
    \/ \E d \in StopCallers : stopCalls[d].pc # "out"
    \/ job.pc = "unstarted"

\* C21: Stop called twice, one call after or during the other, or before
\* Start, closes neither stopCh nor the queue a second time and does not
\* panic; the redundant call returns at once and changes no state
C21_StopIdempotent ==
    /\ [](closes.stopCh <= 1 /\ closes.queue <= 1)
    /\ [][\A c \in StopCallers :
            (StopBegins(c) /\ Redundant) =>
                /\ stopCalls'[c].pc = "out"
                /\ UNCHANGED <<storeVars, notifyVars, detailScraper, queue,
                               job, stats, isRunning, stopCh, queueClosed,
                               closes>>]_vars

\* Scheduler.Stop's call has closed stopCh and is about to close the queue,
\* which holds a product, and the ticker's call has already returned
C21_Witness ==
    /\ stopCalls["Scheduler.Stop"] = [pc |-> "closeQueue", calls |-> 1]
    /\ stopCalls["ticker"] = [pc |-> "out", calls |-> 1]
    /\ closes = [stopCh |-> 1, queue |-> 0]
    /\ queue # <<>>
    /\ ~isRunning

----------------------------------------------------------------------------
(* Specification SpecIdentity: tiles are parsed again and again while the  *)
(* store fills, the clock advances and the process is restarted            *)

\* process runs explored
MaxRuns == 2

\* the tiles parsed, as (category, partNumber, title): "Mac" without a part
\* number and with the part number "F", the title "FMac" without one, and a
\* refurbished iPad with a title in Chinese
IdentityTiles ==
    { <<"Mac", <<>>, <<77, 97, 99>> >>,
      <<"Mac", <<70>>, <<77, 97, 99>> >>,
      <<"Mac", <<>>, <<70, 77, 97, 99>> >>,
      <<"iPad", <<>>, <<32763, 26032, 32, 105, 80, 97, 100>> >> }

\* AppleScraper.parseTile, the identity: the call of GenerateID, remembered
\* with the circumstances it was made in; of the calls made before, one is
\* kept
Extract(category, partNumber, title) ==
    /\ \E kept \in {identity.kept, identity.latest} :
           identity' = [identity EXCEPT
               !.kept = kept,
               !.latest =
                   {[category |-> category, partNumber |-> partNumber,
                     title |-> title, signature |-> partNumber \o title,
                     id |-> tileID(category, partNumber, title),
                     at |-> now, run |-> identity.run,
                     stored |-> DOMAIN products]}]
    /\ UNCHANGED <<storeVars, now, notifyVars, last, detailVars, scoreVars,
                   matchVars, cycle, reader, tally, auxVars>>

\* the process ends and is started again on the database it left
Restart ==
    /\ identity.run < MaxRuns
    /\ identity' = [identity EXCEPT !.run = @ + 1]
    /\ UNCHANGED <<storeVars, now, notifyVars, last, detailVars, scoreVars,
                   matchVars, cycle, reader, tally, auxVars>>

InitIdentity == InitWith({"SQLiteStore"}, FALSE, DisabledSubs)

IdentityExtract ==
    \E tile \in IdentityTiles : Extract(tile[1], tile[2], tile[3])

IdentityCycle ==
    /\ products = EmptyMap
    /\ RunScrape("p1", <<85, 0>>, [s \in SubIDs |-> FALSE])

NextIdentity ==
    \/ IdentityExtract
    \/ IdentityCycle
    \/ Tick
    \/ Restart

SpecIdentity == InitIdentity /\ [][NextIdentity]_vars

----------------------------------------------------------------------------
(* Specification SpecScore: a store loaded with one product and an         *)
(* arbitrary history, against which candidates of every stock status,      *)
(* price, discount and age are scored and upserted                         *)

ScorePrices == {0, 985, 1000}

ScoreDiscounts == {-60, 4, 15}

ScoreStatuses == {"available", "limited", "sold_out"}

\* creation times: now, 8, and 95 days before ScoreNow
ScoreNow == 100 * SecondsPerDay * TicksPerSecond

ScoreAges == {0, 8, 95}

RECURSIVE HistoriesUpTo(_)
HistoriesUpTo(n) ==
    IF n = 0 THEN {<<>>}
    ELSE LET shorter == HistoriesUpTo(n - 1)
         IN  shorter \cup
             { Append(h, [Price |-> p, Timestamp |-> 0, Discount |-> 0]) :
                  h \in {x \in shorter : Len(x) = n - 1}, p \in ScorePrices }

ScoreCandidate(price, discount, status, age) ==
    [parseTile("p1", <<price, 0>>, ScoreNow - age * SecondsPerDay * TicksPerSecond)
        EXCEPT !.Discount = discount, !.StockStatus = status]

InitScore ==
    /\ impl \in {"Store", "SQLiteStore"}
    /\ \E price \in ScorePrices, discount \in ScoreDiscounts,
          status \in ScoreStatuses, age \in ScoreAges,
          h \in HistoriesUpTo(MaxScoreHist) :
          /\ scoreArgs = [product |-> ScoreCandidate(price, discount, status, age),
                          history |-> h, at |-> ScoreNow]
          /\ products = [id \in {"p1"} |->
                           ScoreCandidate(1000, discount, status, age)]
          /\ history = [id \in {"p1"} |-> h]
    /\ now = ScoreNow
    /\ subs = DisabledSubs
    /\ sent = [pr \in SubIDs \X IDs |-> 0]
    /\ last = NoCall
    /\ detailScraper = FALSE
    /\ queue = <<>>
    /\ job = IdleJob
    /\ stats = ZeroStats
    /\ subscriptions = InitialSubscriptions
    /\ notificationHistory = <<>>
    /\ isRunning = FALSE
    /\ stopCh = FALSE
    /\ queueClosed = FALSE
    /\ stopCalls = NoStopCalls
    /\ closes = NoCloses
    /\ scoreOut = 0
    /\ matchArgs = [product |-> NoProduct, sub |-> OpenSub("")]
    /\ matchOut = "none"
    /\ cycle = NoCycle
    /\ reader = NoReads
    /\ tally = NoTally
    /\ identity = NoIdentity
    /\ AuxInit

\* the store's score function applied to the arguments
Evaluate ==
    /\ last.op = "none"
    /\ scoreOut' = IF impl = "Store"
                   THEN calculateValueScore(scoreArgs.product, scoreArgs.history,
                                            scoreArgs.at)
                   ELSE CalculateValueScore(scoreArgs.product, scoreArgs.history,
                                            scoreArgs.at)
    /\ last' = [NoCall EXCEPT !.op = "score"]
    /\ UNCHANGED <<storeVars, now, notifyVars, detailVars, scoreArgs,
                   matchVars, cycle, reader, tally, identity, auxVars>>

\* UpsertProduct of the candidate: the score is computed and stored
UpsertScored ==
    LET r == UpsertProduct(impl, products, history, scoreArgs.product, now)
    IN  /\ last.op \in {"none", "score"}
        /\ products' = r.products
        /\ history' = r.history
        /\ last' = CallOf("upsert", scoreArgs.product, products, history, r, FALSE)
        /\ scoreOut' = r.products["p1"].ValueScore
        /\ UNCHANGED <<impl, now, notifyVars, detailVars, scoreArgs,
                       matchVars, cycle, reader, tally, identity, auxVars>>

NextScore ==
    \/ Evaluate
    \/ UpsertScored

SpecScore == InitScore /\ [][NextScore]_vars

\* C6: every value score the store computes, and every score it has stored,
\* lies in [0, 100]
C6_ScoreInRange ==
    /\ scoreOut \in 0..10000
    /\ \A id \in DOMAIN products : products[id].ValueScore \in 0..10000

\* the upper clamp acts on a product priced 0 whose history holds a 0 entry
C6_Witness ==
    /\ last.op = "upsert"
    /\ Stored.ValueScore = 10000
    /\ Stored.Price = 0
    /\ \E i \in 1..Len(StoredHistory) : StoredHistory[i].Price = 0

----------------------------------------------------------------------------
(* Specification SpecContains: the dispatcher's contains applied to every  *)
(* pair of short strings over the letters A, a and b                       *)

\* length of the strings explored
MaxStrLen == 2

\* the codes of "A", "a", "b"
Letters == {65, 97, 98}

RECURSIVE StringsUpTo(_)
StringsUpTo(n) ==
    IF n = 0 THEN {<<>>}
    ELSE LET shorter == StringsUpTo(n - 1)
         IN  shorter \cup
             { Append(w, c) : w \in {x \in shorter : Len(x) = n - 1},
                              c \in Letters }

\* contains(s, substr) is called and its result kept
ContainsCall(str, substr) ==
    /\ probe' = [op |-> "contains", args |-> <<str, substr>>,
                 out |-> contains(str, substr)]
    /\ UNCHANGED <<storeVars, now, notifyVars, last, detailVars, scoreVars,
                   matchVars, cycle, reader, tally, identity, lateVars>>

InitContains == InitWith({"Store"}, FALSE, DisabledSubs)

NextContains ==
    \E str \in StringsUpTo(MaxStrLen), substr \in StringsUpTo(MaxStrLen) :
        ContainsCall(str, substr)

SpecContains == InitContains /\ [][NextContains]_vars

\* an ASCII letter without its case
FoldCase(c) == IF c \in 65..90 THEN c + 32 ELSE c

\* substr occurs in str when letter case is ignored
OccursIgnoringCase(str, substr) ==
    \E i \in 0..(Len(str) - Len(substr)) :
        \A j \in 1..Len(substr) : FoldCase(str[i + j]) = FoldCase(substr[j])

\* C31: contains(s, substr) is true exactly when substr occurs in s ignoring
\* ASCII letter case, also for strings of equal length and for the empty
\* substr
C31_ContainsIgnoresCase ==
    probe.op = "contains" =>
        (probe.out <=> OccursIgnoringCase(probe.args[1], probe.args[2]))

----------------------------------------------------------------------------
(* Specification SpecInbox: notification records of several delivery keys  *)
(* are added to either store and the history is queried through the API    *)

\* records added
MaxRecords == 3

\* (subscription, delivery key): two subscriptions of one user and one of
\* another
InboxSubs == { <<"s1", "k1">>, <<"s2", "k2">>, <<"s3", "k1">> }

\* the filter applied without regard to the key
memGetNotificationHistoryAnyKey(H, subscriptionID, barkKey, limit, offset) ==
    LET Keep(h) == subscriptionID = "" \/ h.SubscriptionID = subscriptionID
        filtered == SelectSeq(H, Keep)
        total == Len(filtered)
        end == IF offset + limit > total THEN total ELSE offset + limit
    IN  IF offset >= total THEN [data |-> <<>>, total |-> total]
        ELSE [data |-> SubSeq(filtered, offset + 1, end), total |-> total]

\* Store.GetNotificationHistory
memGetNotificationHistory(H, subscriptionID, barkKey, limit, offset) ==
    LET Keep(h) == /\ h.BarkKey = barkKey
                   /\ subscriptionID = "" \/ h.SubscriptionID = subscriptionID
        filtered == SelectSeq(H, Keep)
        total == Len(filtered)
        end == IF offset + limit > total THEN total ELSE offset + limit
    IN  IF offset >= total THEN [data |-> <<>>, total |-> total]
        ELSE [data |-> SubSeq(filtered, offset + 1, end), total |-> total]

\* ORDER BY created_at DESC; rows of one second stay in the order of insertion
RECURSIVE OrderByCreatedDesc(_)
OrderByCreatedDesc(rows) ==
    IF rows = <<>> THEN <<>>
    ELSE LET first == CHOOSE i \in DOMAIN rows :
                          \A j \in DOMAIN rows :
                              \/ rows[j].CreatedAt < rows[i].CreatedAt
                              \/ rows[j].CreatedAt = rows[i].CreatedAt /\ i <= j
             rest == [k \in 1..(Len(rows) - 1) |->
                         IF k < first THEN rows[k] ELSE rows[k + 1]]
         IN  <<rows[first]>> \o OrderByCreatedDesc(rest)

\* SQLiteStore.GetNotificationHistory: the count and the page of the rows of
\* the key; the scan leaves BarkKey of the returned records empty
sqlGetNotificationHistory(H, subscriptionID, barkKey, limit, offset) ==
    LET Keep(h) == /\ h.BarkKey = barkKey
                   /\ subscriptionID = "" \/ h.SubscriptionID = subscriptionID
        rows == OrderByCreatedDesc(SelectSeq(H, Keep))
        total == Len(rows)
        end == IF offset + limit > total THEN total ELSE offset + limit
        page == IF offset >= total THEN <<>> ELSE SubSeq(rows, offset + 1, end)
    IN  [data |-> [i \in DOMAIN page |-> [page[i] EXCEPT !.BarkKey = ""]],
         total |-> total]

\* Handlers.GetNotificationHistory: limit and offset are defaulted and cut,
\* a request without a key is answered without asking the store
HandlersGetNotificationHistory(st, H, subscriptionID, barkKey, limitArg, offsetArg) ==
    LET limit == IF limitArg <= 0 THEN 50
                 ELSE IF limitArg > 200 THEN 200 ELSE limitArg
        offset == IF offsetArg < 0 THEN 0 ELSE offsetArg
    IN  IF barkKey = "" THEN [data |-> <<>>, total |-> 0]
        ELSE IF st = "Store"
             THEN memGetNotificationHistory(H, subscriptionID, barkKey,
                                            limit, offset)
             ELSE sqlGetNotificationHistory(H, subscriptionID, barkKey,
                                            limit, offset)

\* Store.AddNotificationHistory / SQLiteStore.AddNotificationHistory; what an
\* earlier query returned is forgotten
AddNotificationHistory(rec) ==
    /\ notificationHistory' = Append(notificationHistory, rec)
    /\ probe' = NoProbe
    /\ UNCHANGED <<storeVars, now, subs, sent, subscriptions, last,
                   detailVars, scoreVars, matchVars, cycle, reader, tally,
                   identity, lateVars>>

\* GET /notification-history
GetNotificationHistory(subscriptionID, barkKey, limit, offset) ==
    /\ probe' = [op |-> "GetNotificationHistory",
                 args |-> [subscriptionID |-> subscriptionID,
                           barkKey |-> barkKey, limit |-> limit,
                           offset |-> offset],
                 out |-> HandlersGetNotificationHistory(impl,
                             notificationHistory, subscriptionID, barkKey,
                             limit, offset)]
    /\ UNCHANGED <<storeVars, now, notifyVars, last, detailVars, scoreVars,
                   matchVars, cycle, reader, tally, identity, lateVars>>

InitInbox == InitWith({"Store", "SQLiteStore"}, FALSE, DisabledSubs)

InboxAdd ==
    \E sk \in InboxSubs, created \in {0, 1}, status \in {"sent"} :
        /\ Len(notificationHistory) < MaxRecords
        /\ AddNotificationHistory(
               [ID |-> Len(notificationHistory) + 1, SubscriptionID |-> sk[1],
                ProductID |-> "p1", Status |-> status, BarkKey |-> sk[2],
                CreatedAt |-> created])

InboxQuery ==
    \E subscriptionID \in {"", "s1"}, barkKey \in {"", "k1", "k2"},
       limit \in {0, 1, 2}, offset \in {0, 1} :
        GetNotificationHistory(subscriptionID, barkKey, limit, offset)

NextInbox ==
    \/ InboxAdd
    \/ InboxQuery

SpecInbox == InitInbox /\ [][NextInbox]_vars

\* the stored records of one delivery key
RecordsOfKey(key) ==
    SelectSeq(notificationHistory, LAMBDA h : h.BarkKey = key)

\* C32: a history query returns only records stored under the key asked
\* for, its total counts exactly the records of that key (and of the
\* subscription, when one is named), the answer is the one the same query
\* gets from a store holding only that key's records, and a query without
\* a key returns nothing
C32_HistoryPerKey ==
    probe.op = "GetNotificationHistory" =>
        LET a    == probe.args
            own  == RecordsOfKey(a.barkKey)
            mine == {i \in DOMAIN own :
                        a.subscriptionID = ""
                            \/ own[i].SubscriptionID = a.subscriptionID}
        IN  /\ \A i \in DOMAIN probe.out.data :
                   \E j \in DOMAIN own : own[j].ID = probe.out.data[i].ID
            /\ a.barkKey # "" => probe.out.total = Cardinality(mine)
            /\ probe.out = HandlersGetNotificationHistory(impl, own,
                               a.subscriptionID, a.barkKey, a.limit, a.offset)
            /\ a.barkKey = "" => probe.out.data = <<>>

\* a query for k1 was answered with records while the store also holds a
\* record of k2
C32_Witness ==
    /\ probe.op = "GetNotificationHistory"
    /\ probe.args.barkKey = "k1"
    /\ probe.out.data # <<>>
    /\ probe.out.total < Len(notificationHistory)
    /\ \E i \in DOMAIN notificationHistory :
           notificationHistory[i].BarkKey = "k2"

----------------------------------------------------------------------------
(* Enrichment beside newer cycles, checked on SpecEnrich                   *)

\* C33: the worker's UpsertProduct of an enriched product leaves the stored
\* price and the price history of the product as they were, also when a
\* newer cycle changed the price after the product was enqueued, and a cycle
\* that then finds the price the store held before the enrichment reports
\* no price change
C33_EnrichmentKeepsPrice ==
    /\ [][(/\ job.pc = "fetch"
           /\ job'.pc = "done"
           /\ job.product.ID \in DOMAIN products)
            => /\ products'[job.product.ID].Price
                      = products[job.product.ID].Price
               /\ HistOf(history', job.product.ID)
                      = HistOf(history, job.product.ID)]_vars
    /\ [][(/\ last.op = "enrich"
           /\ last.existed
           /\ last'.op = "scrape"
           /\ last'.cand.ID = last.cand.ID
           /\ last'.cand.Price = last.prev.Price)
            => ~last'.priceChanged]_vars

----------------------------------------------------------------------------
(* Sends on the enrichment queue beside DetailScraper.Stop, checked on     *)
(* SpecSend.  Stop closes d.queue outside d.mu; Enqueue and EnqueueSingle  *)
(* test neither isRunning nor the channel before the select whose case is  *)
(* the send.  A send on a closed channel panics, inside a select with a    *)
(* default case as well, and the panic of a goroutine without recover ends *)
(* the process.                                                            *)

\* the process has not panicked
Running == chanFault = NoFault

\* the goroutines that call Enqueue or EnqueueSingle: the ticker's cycle,
\* the handler goroutine of TriggerScrape (ScrapeNow), the goroutine that
\* Scheduler.Start spawns for ProcessExistingProducts, and a caller of
\* EnqueueSingle
SendCallers == {"cycle", "ScrapeNow", "ProcessExistingProducts",
                "EnqueueSingle"}

\* the select of Enqueue / EnqueueSingle reached with the queue closed
SendOnClosed(caller) ==
    /\ chanFault' = [op |-> "send on closed channel", caller |-> caller]
    /\ UNCHANGED <<impl, now, notifyVars, last, detailVars, scoreVars,
                   matchVars, cycle, reader, tally, identity, probe, pool,
                   fanout, twin>>

\* Scheduler.runScrape for a catalog of one tile, lines 351-352: the
\* products of the cycle are upserted and then handed to Enqueue, whatever
\* DetailScraper.Stop has done
runScrapeSend(caller, id, tag) ==
    LET cand == parseTile(id, tag, now)
        r    == UpsertProduct(impl, products, history, cand, now)
    IN  IF detailScraper /\ queueClosed /\ admissible(r.cand)
        THEN /\ products' = r.products
             /\ history' = r.history
             /\ SendOnClosed(caller)
        ELSE RunScrape(id, tag, [s \in SubIDs |-> FALSE])

\* Store.GetAllProducts / SQLiteStore.GetAllProducts: the stored products,
\* here in the order of their IDs
GetAllProducts(P) ==
    LET ids == SelectSeq(<<"p1", "p2">>, LAMBDA id : id \in DOMAIN P)
    IN  [i \in 1..Len(ids) |-> P[ids[i]]]

\* DetailScraper.ProcessExistingProducts: the stored products without a
\* description and with a URL go to Enqueue
needDetails(P) ==
    SelectSeq(GetAllProducts(P), admissibleSingle)

ProcessExistingProducts ==
    LET ps == needDetails(products)
    IN  IF queueClosed /\ \E i \in 1..Len(ps) : admissible(ps[i])
        THEN SendOnClosed("ProcessExistingProducts") /\ UNCHANGED storeVars
        ELSE EnqueueProducts(ps)

\* DetailScraper.EnqueueSingle called with a stored product
EnqueueSingleSend(p) ==
    IF queueClosed /\ admissibleSingle(p)
    THEN SendOnClosed("EnqueueSingle") /\ UNCHANGED storeVars
    ELSE EnqueueOne(p)

InitSend == InitShutdown

\* the ticker goroutine runs cycles until it takes the stopCh case, which
\* is where it calls DetailScraper.Stop
SendTicker ==
    /\ Running
    /\ job.pc # "unstarted"
    /\ stopCalls["ticker"].calls = 0
    /\ Len(HistOf(history, "p1")) < MaxHistLen
    /\ stats.TotalQueued < MaxItems
    /\ \E tag \in {<<85, 0>>} : runScrapeSend("cycle", "p1", tag)

\* POST /scrape at any moment
SendScrapeNow ==
    /\ Running
    /\ Len(HistOf(history, "p1")) < MaxHistLen
    /\ stats.TotalQueued < MaxItems
    /\ \E tag \in {<<85, 0>>} : runScrapeSend("ScrapeNow", "p1", tag)

\* the goroutine of Scheduler.Start, five seconds after the start
SendExisting ==
    /\ Running
    /\ job.pc # "unstarted"
    /\ stats.TotalQueued < MaxItems
    /\ ProcessExistingProducts

SendSingle ==
    /\ Running
    /\ stats.TotalQueued < MaxItems
    /\ \E id \in DOMAIN products : EnqueueSingleSend(products[id])

\* Scheduler.Start, and Scheduler.Start after a Stop that has returned: the
\* scraper keeps the channels NewDetailScraper made
SendStart ==
    /\ Running
    /\ job.pc \in {"unstarted", "exited"}
    /\ \A c \in StopCallers : stopCalls[c].pc = "out"
    /\ Start

SendStopBegin == Running /\ job.pc # "unstarted" /\ StopBegin

SendStopStep == Running /\ StopStep

SendStopEnd == Running /\ StopEnd

SendDequeue == Running /\ Dequeue

SendFetch == Running /\ Fetch

SendBackoff == Running /\ Backoff

SendWorkerExit == Running /\ WorkerExit

NextSend ==
    \/ SendTicker
    \/ SendScrapeNow
    \/ SendExisting
    \/ SendSingle
    \/ SendStart
    \/ SendStopBegin
    \/ SendStopStep
    \/ SendStopEnd
    \/ SendDequeue
    \/ SendFetch
    \/ SendBackoff
    \/ SendWorkerExit

SpecSend == InitSend /\ [][NextSend]_vars

\* C34: no send is performed on the enrichment queue once it is closed:
\* in every interleaving of DetailScraper.Stop with Enqueue or EnqueueSingle
\* called from a cycle, from ScrapeNow, from ProcessExistingProducts or
\* after a Stop followed by Start, the enqueue is accepted before the close
\* or refused
C34_NoSendOnClosedQueue == chanFault.op # "send on closed channel"

----------------------------------------------------------------------------
(* The worker pool, checked on SpecPool: DetailScraper.Start spawns        *)
(* d.workers goroutines that receive from the one queue and run            *)
(* processWithRetry.  The workers and EnqueueSingle increment the fields   *)
(* of d.stats without holding d.mu, so an increment is a load and a store  *)
(* that other goroutines' loads and stores may come between; Enqueue       *)
(* increments TotalQueued under d.mu.  A load is taken together with the   *)
(* step of the same goroutine before it: that step touches no counter, so  *)
(* every order of loads and stores of the counters is still explored.      *)

\* a worker between two items
IdleWorker ==
    [pc |-> "idle", product |-> NoProduct, live |-> FALSE, attempt |-> 0,
     inc |-> <<>>, reg |-> NoReg, serial |-> 0]

PoolWorkers == DOMAIN pool.workers

\* no worker is in the middle of an item
Quiescent == \A w \in PoolWorkers : pool.workers[w].pc = "idle"

\* DetailScraper.Start: isRunning is set and d.workers workers are spawned
PoolStart ==
    /\ ~isRunning
    /\ isRunning' = TRUE
    /\ pool' = [pool EXCEPT !.workers = [w \in 1..MaxWorkers |-> IdleWorker]]
    /\ UNCHANGED <<storeVars, now, notifyVars, last, detailScraper, queue,
                   job, stats, stopCh, queueClosed, stopCalls, closes,
                   scoreVars, matchVars, cycle, reader, tally, identity,
                   probe, chanFault, fanout, twin>>

\* Scheduler.runScrape beside the pool: Enqueue sends the product and
\* increments TotalQueued under d.mu.  A worker that holds the object the
\* in-memory store has replaced holds a detached object from then on
PoolCycle(id, tag) ==
    /\ RunScrapeIO(id, tag, [s \in SubIDs |-> FALSE], "none")
    /\ pool' = [pool EXCEPT
                   !.accepted = @ + (Len(queue') - Len(queue)),
                   !.workers = [w \in PoolWorkers |->
                       IF impl = "Store" /\ pool.workers[w].product.ID = id
                       THEN [pool.workers[w] EXCEPT !.live = FALSE]
                       ELSE pool.workers[w]]]
    /\ UNCHANGED <<cycle, reader, tally, identity, probe, chanFault, fanout,
                   twin>>

\* DetailScraper.worker, lines 167-171: one worker receives the product at
\* the head of the queue.  The workers run the same code, so of the workers
\* waiting in the select the one of the lowest number stands for all
PoolDequeue(w) ==
    /\ pool.workers[w].pc = "idle"
    /\ \A v \in PoolWorkers : pool.workers[v].pc = "idle" => w <= v
    /\ queue # <<>>
    /\ queue' = Tail(queue)
    /\ pool' = [pool EXCEPT
                   !.started = @ + 1,
                   !.holders = Append(@, {w}),
                   !.workers[w] = [IdleWorker EXCEPT
                                      !.pc = "fetch",
                                      !.product = Head(queue).product,
                                      !.live = Head(queue).live,
                                      !.serial = pool.started + 1]]
    /\ UNCHANGED <<storeVars, now, notifyVars, last, detailScraper, job,
                   stats, lifeVars, scoreVars, matchVars, cycle, reader,
                   tally, identity, probe, chanFault, fanout, twin>>

\* processWithRetry, lines 190-203: ScrapeProductDetails returns; a
\* description is upserted and the counting of the success begins; without
\* one the next pass sleeps, or the passes are exhausted and the counting
\* of the failure begins
PoolFetch(w, page) ==
    LET me      == pool.workers[w]
        updated == ScrapeProductDetails(me.product, page)
        P1      == Alias(products, me.live, updated)
        r       == UpsertProduct(impl, P1, history, updated, now)
    IN  /\ me.pc = "fetch"
        /\ IF updated.Description # ""
           THEN /\ products' = r.products
                /\ history' = r.history
                /\ last' = CallOf("enrich", updated, P1, history, r, FALSE)
                /\ pool' = [pool EXCEPT !.workers[w] =
                              [me EXCEPT !.pc = "count",
                                         !.product = r.cand,
                                         !.live = (impl = "Store"),
                                         !.inc = <<"TotalSuccess",
                                                   "TotalProcessed">>,
                                         !.reg = stats.TotalSuccess]]
           ELSE /\ products' = P1
                /\ UNCHANGED <<history, last>>
                /\ pool' = [pool EXCEPT !.workers[w] =
                              IF me.attempt + 1 <= retryMax
                              THEN [me EXCEPT !.pc = "sleep",
                                              !.product = updated,
                                              !.attempt = @ + 1]
                              ELSE [me EXCEPT !.pc = "count",
                                              !.product = updated,
                                              !.attempt = @ + 1,
                                              !.inc = <<"TotalFailed",
                                                        "TotalProcessed">>,
                                              !.reg = stats.TotalFailed]]
        /\ UNCHANGED <<impl, now, notifyVars, detailScraper, queue, job,
                       stats, lifeVars, scoreVars, matchVars, cycle, reader,
                       tally, identity, probe, chanFault, fanout, twin>>

\* processWithRetry, lines 181-187: the sleep of a pass after the first is
\* over and `d.stats.TotalRetries++` loads the counter
PoolBackoff(w) ==
    /\ pool.workers[w].pc = "sleep"
    /\ pool' = [pool EXCEPT !.workers[w].pc = "count",
                            !.workers[w].inc = <<"TotalRetries">>,
                            !.workers[w].reg = stats.TotalRetries]
    /\ UNCHANGED <<storeVars, now, notifyVars, last, detailVars, scoreVars,
                   matchVars, cycle, reader, tally, identity, probe,
                   chanFault, fanout, twin>>

\* `d.stats.f++` in a worker: the loaded value plus one is stored, and the
\* increment that follows loads its counter.  After TotalRetries the pass
\* goes on to the fetch; after TotalProcessed processWithRetry returns and
\* the worker is back at its select
PoolStore(w) ==
    LET me == pool.workers[w]
        f  == Head(me.inc)
    IN  /\ me.pc = "count"
        /\ stats' = [stats EXCEPT ![f] = me.reg + 1]
        /\ pool' = IF Tail(me.inc) # <<>>
                   THEN [pool EXCEPT
                           !.workers[w].inc = Tail(me.inc),
                           !.workers[w].reg = stats[Head(Tail(me.inc))]]
                   ELSE IF f = "TotalRetries"
                   THEN [pool EXCEPT !.workers[w].inc = <<>>,
                                     !.workers[w].reg = NoReg,
                                     !.workers[w].pc = "fetch"]
                   ELSE [pool EXCEPT !.workers[w] = IdleWorker,
                                     !.done = @ \cup {me.serial}]
        /\ UNCHANGED <<storeVars, now, notifyVars, last, detailScraper,
                       queue, job, lifeVars, scoreVars, matchVars, cycle,
                       reader, tally, identity, probe, chanFault, fanout,
                       twin>>

InitPool == InitShutdown

\* the outcomes of a fetch: no page, or a page with a description
PoolPages == {"error", "full"}

PoolEnqueue ==
    /\ pool.accepted < MaxItems
    /\ PoolCycle("p1", <<85, 0>>)

PoolReceive == \E w \in PoolWorkers : PoolDequeue(w)

PoolAttempt == \E w \in PoolWorkers, page \in PoolPages : PoolFetch(w, page)

PoolSleep == \E w \in PoolWorkers : PoolBackoff(w)

PoolCountStore == \E w \in PoolWorkers : PoolStore(w)

NextPool ==
    \/ PoolStart
    \/ PoolEnqueue
    \/ PoolReceive
    \/ PoolAttempt
    \/ PoolSleep
    \/ PoolCountStore

SpecPool == InitPool /\ [][NextPool]_vars

\* C35: for any number of workers and any interleaving, whenever no worker
\* is in the middle of an item, TotalProcessed = TotalSuccess + TotalFailed
\* and TotalProcessed <= TotalQueued; and TotalRetries never exceeds
\* retryMax times the number of items started
C35_TotalsConsistent ==
    /\ Quiescent =>
          /\ stats.TotalProcessed = stats.TotalSuccess + stats.TotalFailed
          /\ stats.TotalProcessed <= stats.TotalQueued
    /\ stats.TotalRetries <= retryMax * pool.started

\* the goroutines of a started pool keep running: a worker whose select can
\* receive does receive, a fetch returns, a sleep ends, an increment that
\* has loaded its counter stores it
PoolFairness ==
    \A w \in 1..MaxWorkers :
        /\ WF_vars(w \in PoolWorkers /\ PoolDequeue(w))
        /\ WF_vars(w \in PoolWorkers
                       /\ \E page \in PoolPages : PoolFetch(w, page))
        /\ WF_vars(w \in PoolWorkers /\ PoolBackoff(w))
        /\ WF_vars(w \in PoolWorkers /\ PoolStore(w))

SpecPoolFair == InitPool /\ [][NextPool]_vars /\ PoolFairness

\* the i-th product accepted by Enqueue was received by exactly one worker
\* and its processWithRetry has returned
Served(i) ==
    /\ i <= Len(pool.holders)
    /\ Cardinality(pool.holders[i]) = 1
    /\ i \in pool.done

\* C36: once the pipeline is started, with Stop never invoked and every
\* fetch returning, every item accepted by Enqueue is eventually dequeued by
\* exactly one worker and counted exactly once in TotalProcessed: no item
\* is processed by two workers or left in the queue forever
C36_AcceptedItemsCounted ==
    /\ \A i \in 1..MaxItems :
          (isRunning /\ pool.accepted >= i) ~> Served(i)
    /\ [](\A i \in 1..Len(pool.holders) : Cardinality(pool.holders[i]) = 1)
    /\ []((isRunning /\ Quiescent /\ queue = <<>>)
             => stats.TotalProcessed = pool.accepted)

----------------------------------------------------------------------------
(* The fan-out of NotifyPriceChange, checked on SpecFanoutFair.  The file   *)
(* has two versions of the dispatcher: version 1 sends by Bark only (lines *)
(* 37-93), version 2 by Bark and by e-mail (lines 287-362).  One goroutine *)
(* runs per subscription; errors go to a buffered channel the caller       *)
(* reads after wg.Wait().                                                  *)

\* subscriptions handed to one call
MaxFanout == 2

\* the new prices the calls report
FanoutPrices == {100}

\* make(chan error, len(subscriptions)) in version 1, line 48;
\* make(chan error, len(subscriptions)*2) in version 2, line 299
errChanCapSingle(version, n) == n
errChanCap(version, n) == IF version = 1 THEN n ELSE n * 2

\* a subscription with a Bark key and an address, one with a key only, one
\* with an address only, and one whose target the price has not reached
FanoutSubs ==
    {[BarkKey |-> "k1", Email |-> "a@b", TargetPrice |-> 0],
     [BarkKey |-> "k2", Email |-> "", TargetPrice |-> 0],
     [BarkKey |-> "", Email |-> "c@d", TargetPrice |-> 0],
     [BarkKey |-> "k4", Email |-> "e@f", TargetPrice |-> 85]}

RECURSIVE SubListsUpTo(_)
SubListsUpTo(n) ==
    IF n = 0 THEN {<<>>}
    ELSE LET shorter == SubListsUpTo(n - 1)
         IN  shorter \cup {Append(l, s) : l \in shorter, s \in FanoutSubs}

Goroutines == DOMAIN fanout.g

\* NotifyPriceChange up to wg.Wait(): an empty list returns at once;
\* otherwise the error channel is made and one goroutine is started per
\* subscription
NotifyPriceChangeCall(version, emailOn, newPrice, list) ==
    /\ fanout.pc \in {"out", "returned"}
    /\ fanout' =
          IF list = <<>>
          THEN [NoFanout EXCEPT !.pc = "returned", !.version = version,
                                !.emailOn = emailOn, !.newPrice = newPrice]
          ELSE [pc |-> "wait", version |-> version, emailOn |-> emailOn,
                newPrice |-> newPrice, subs |-> list,
                g |-> [i \in 1..Len(list) |-> [pc |-> "target", errs |-> 0]],
                cap |-> errChanCap(version, Len(list)), len |-> 0,
                collected |-> 0]
    /\ UNCHANGED <<storeVars, now, notifyVars, last, detailVars, scoreVars,
                   matchVars, cycle, reader, tally, identity, probe,
                   chanFault, pool, twin>>

\* the goroutine's position after the Bark block
AfterBark == IF fanout.version = 1 THEN "done" ELSE "email"

\* the goroutine of subscription i, lines 55-59: a target the price has not
\* reached ends the goroutine
GoTarget(i) ==
    /\ fanout.g[i].pc = "target"
    /\ fanout' = [fanout EXCEPT !.g[i].pc =
                     IF targetNotReached(fanout.subs[i], fanout.newPrice)
                     THEN "done" ELSE "bark"]
    /\ UNCHANGED <<storeVars, now, notifyVars, last, detailVars, scoreVars,
                   matchVars, cycle, reader, tally, identity, probe,
                   chanFault, pool, twin>>

\* lines 61-76: the Bark send is made for a subscription with a key; ok
\* tells whether it succeeded
GoBark(i, ok) ==
    /\ fanout.g[i].pc = "bark"
    /\ fanout' = [fanout EXCEPT !.g[i].pc =
                     IF fanout.subs[i].BarkKey # "" /\ ~ok
                     THEN "barkErr" ELSE AfterBark]
    /\ UNCHANGED <<storeVars, now, notifyVars, last, detailVars, scoreVars,
                   matchVars, cycle, reader, tally, identity, probe,
                   chanFault, pool, twin>>

\* version 2, lines 331-346: the e-mail send is made for a subscription
\* with an address when the e-mail service is enabled
GoEmail(i, ok) ==
    /\ fanout.g[i].pc = "email"
    /\ fanout' = [fanout EXCEPT !.g[i].pc =
                     IF fanout.subs[i].Email # "" /\ fanout.emailOn /\ ~ok
                     THEN "emailErr" ELSE "done"]
    /\ UNCHANGED <<storeVars, now, notifyVars, last, detailVars, scoreVars,
                   matchVars, cycle, reader, tally, identity, probe,
                   chanFault, pool, twin>>

\* `errChan <- err`: the send blocks while the buffer is full
GoReport(i) ==
    /\ fanout.g[i].pc \in {"barkErr", "emailErr"}
    /\ fanout.len < fanout.cap
    /\ fanout' = [fanout EXCEPT
                     !.len = @ + 1,
                     !.g[i].errs = @ + 1,
                     !.g[i].pc = IF fanout.g[i].pc = "barkErr"
                                 THEN AfterBark ELSE "done"]
    /\ UNCHANGED <<storeVars, now, notifyVars, last, detailVars, scoreVars,
                   matchVars, cycle, reader, tally, identity, probe,
                   chanFault, pool, twin>>

\* wg.Wait() returns when every goroutine has run its deferred wg.Done();
\* the channel is closed, its content collected, and the call returns nil
NotifyPriceChangeReturn ==
    /\ fanout.pc = "wait"
    /\ \A i \in Goroutines : fanout.g[i].pc = "done"
    /\ fanout' = [fanout EXCEPT !.pc = "returned", !.collected = fanout.len,
                                !.len = 0]
    /\ UNCHANGED <<storeVars, now, notifyVars, last, detailVars, scoreVars,
                   matchVars, cycle, reader, tally, identity, probe,
                   chanFault, pool, twin>>

InitFanout == InitWith({"Store"}, FALSE, DisabledSubs)

FanoutCall ==
    \E version \in {1, 2}, emailOn \in BOOLEAN, newPrice \in FanoutPrices,
       list \in SubListsUpTo(MaxFanout) :
        NotifyPriceChangeCall(version, emailOn, newPrice, list)

FanoutTarget == \E i \in Goroutines : GoTarget(i)

FanoutBark == \E i \in Goroutines, ok \in BOOLEAN : GoBark(i, ok)

FanoutEmail == \E i \in Goroutines, ok \in BOOLEAN : GoEmail(i, ok)

FanoutReport == \E i \in Goroutines : GoReport(i)

NextFanout ==
    \/ FanoutCall
    \/ FanoutTarget
    \/ FanoutBark
    \/ FanoutEmail
    \/ FanoutReport
    \/ NotifyPriceChangeReturn

\* every send returns and every runnable goroutine runs; nothing obliges a
\* caller to call NotifyPriceChange
FanoutFairness ==
    /\ WF_vars(NotifyPriceChangeReturn)
    /\ \A i \in 1..MaxFanout :
          /\ WF_vars(i \in Goroutines /\ GoTarget(i))
          /\ WF_vars(i \in Goroutines /\ \E ok \in BOOLEAN : GoBark(i, ok))
          /\ WF_vars(i \in Goroutines /\ \E ok \in BOOLEAN : GoEmail(i, ok))
          /\ WF_vars(i \in Goroutines /\ GoReport(i))

SpecFanoutFair == InitFanout /\ [][NextFanout]_vars /\ FanoutFairness

\* C37: NotifyPriceChange terminates with all its work done: a call that
\* started goroutines returns, it has returned only when every goroutine has
\* finished, and a goroutine that reports an error never finds the error
\* channel full, its capacity being at least the number of errors the
\* goroutines can produce (one per subscription, two with Bark and e-mail)
C37_FanoutTerminates ==
    /\ (fanout.pc = "wait") ~> (fanout.pc = "returned")
    /\ [](fanout.pc = "returned"
             => \A i \in Goroutines : fanout.g[i].pc = "done")
    /\ [](\A i \in Goroutines :
             fanout.g[i].pc \in {"barkErr", "emailErr"}
                 => fanout.len < fanout.cap)

\* a call of version 2 has returned after both sends of every one of
\* MaxFanout subscriptions failed
C37_Witness ==
    /\ fanout.pc = "returned"
    /\ fanout.version = 2
    /\ Len(fanout.subs) >= 2
    /\ \A i \in Goroutines : fanout.g[i].errs = 2
    /\ fanout.collected = 2 * Len(fanout.subs)

----------------------------------------------------------------------------
(* Listing new-arrival subscriptions, checked on SpecMask.  The in-memory  *)
(* store keeps *model.NewArrivalSubscription values in a map and hands out *)
(* those pointers; the SQLite store builds new values from the rows.       *)

\* handlers.go, maskBarkKey
maskBarkKey(key) ==
    IF key = "" THEN ""
    ELSE IF Len(key) <= 8 THEN "****"
    ELSE SubSeq(key, 1, 4) \o "****" \o SubSeq(key, Len(key) - 3, Len(key))

\* Store.GetNewArrivalSubscriptionsByBarkKey /
\* SQLiteStore.GetNewArrivalSubscriptionsByBarkKey: the subscriptions of a key
GetNewArrivalSubscriptionsByBarkKey(S, barkKey) ==
    {s \in DOMAIN S : S[s].BarkKey = barkKey}

\* GET /new-arrival-subscriptions: without a key the answer is empty;
\* otherwise the handler assigns the masked key to every subscription the
\* store returned and answers with them.  With the in-memory store those
\* are the stored subscriptions themselves
GetNewArrivalSubscriptions(barkKey) ==
    LET found == IF barkKey = "" THEN {}
                 ELSE GetNewArrivalSubscriptionsByBarkKey(subs, barkKey)
    IN  /\ probe' = [op |-> "GetNewArrivalSubscriptions",
                     args |-> <<barkKey>>,
                     out |-> [count |-> Cardinality(found),
                              subscriptions |->
                                  {[ID |-> s,
                                    BarkKey |-> maskBarkKey(subs[s].BarkKey)] :
                                       s \in found}]]
        /\ subs' = IF impl = "Store"
                   THEN [s \in DOMAIN subs |->
                            IF s \in found
                            THEN [subs[s] EXCEPT !.BarkKey = maskBarkKey(@)]
                            ELSE subs[s]]
                   ELSE subs
        /\ UNCHANGED <<storeVars, now, sent, subscriptions,
                       notificationHistory, last, detailVars, scoreVars,
                       matchVars, cycle, reader, tally, identity, lateVars>>

\* one subscription with a key of two characters, one with a key of
\* fourteen
MaskSubs ==
    [s \in SubIDs |->
        IF s = "s1" THEN OpenSub("k1") ELSE OpenSub("key-0123456789")]

\* the keys a client asks with: none, the two keys, and their masked forms
MaskKeys == {"", "k1", "key-0123456789", "****", "key-****6789"}

InitMask == InitWith({"Store", "SQLiteStore"}, FALSE, MaskSubs)

MaskList == \E barkKey \in MaskKeys : GetNewArrivalSubscriptions(barkKey)

\* cycles that find a product at one price, every Bark send succeeding
MaskCycle ==
    \E id \in IDs :
        /\ WithinBounds(id)
        /\ RunScrape(id, <<85, 0>>, [s \in SubIDs |-> TRUE])

NextMask ==
    \/ MaskList
    \/ MaskCycle

SpecMask == InitMask /\ [][NextMask]_vars

\* C38: listing new-arrival subscriptions through the API leaves every
\* stored subscription's BarkKey unchanged, with every store, so that a
\* later lookup by the key finds the subscriptions of the key and a later
\* dispatch uses the full key
C38_ListingKeepsKeys ==
    /\ \A s \in DOMAIN subs : subs[s].BarkKey = MaskSubs[s].BarkKey
    /\ (probe.op = "GetNewArrivalSubscriptions" /\ probe.args[1] # "")
          => probe.out.count =
                Cardinality(GetNewArrivalSubscriptionsByBarkKey(
                                MaskSubs, probe.args[1]))

----------------------------------------------------------------------------
(* The two stores side by side, checked on SpecTwin: a Store and a         *)
(* SQLiteStore, both empty, are given the same UpsertProduct calls.        *)

\* calls given to the pair of stores
MaxCalls == 4

\* what a store holds and what its latest UpsertProduct call returned
AfterUpsert(r) ==
    [products |-> r.products, history |-> r.history,
     priceChanged |-> r.priceChanged, oldPrice |-> r.oldPrice]

\* UpsertProduct called on both stores with the same candidate
TwinUpsertProduct(id, tag) ==
    LET cand == parseTile(id, tag, now)
    IN  /\ twin' = [calls |-> twin.calls + 1,
                    mem |-> AfterUpsert(memUpsertProduct(
                                twin.mem.products, twin.mem.history, cand, now)),
                    sql |-> AfterUpsert(sqlUpsertProduct(
                                twin.sql.products, twin.sql.history, cand, now))]
        /\ UNCHANGED <<storeVars, now, notifyVars, last, detailVars,
                       scoreVars, matchVars, cycle, reader, tally, identity,
                       probe, chanFault, pool, fanout>>

\* Scheduler.runScrape, lines 300-311: what the scheduler makes of the two
\* return values
isNewProduct(ret) == ~ret.priceChanged /\ ret.oldPrice = 0

\* the prices of the price history of a product
HistoryPrices(store, id) ==
    LET h == HistOf(store.history, id)
    IN  [i \in 1..Len(h) |-> h[i].Price]

InitTwin == InitWith({"Store"}, FALSE, DisabledSubs)

TwinCall ==
    /\ twin.calls < MaxCalls
    /\ \E tile \in Tiles : TwinUpsertProduct(tile[1], tile[2])

NextTwin == TwinCall

SpecTwin == InitTwin /\ [][NextTwin]_vars

\* C39: the in-memory Store and the SQLiteStore are interchangeable: for
\* every sequence of UpsertProduct calls both return the same
\* (priceChanged, oldPrice) pairs and hold the same price history for each
\* product, so the scheduler makes the same new-product and price-change
\* decisions with either store
C39_StoresInterchangeable ==
    twin.calls > 0 =>
        /\ twin.mem.priceChanged = twin.sql.priceChanged
        /\ twin.mem.oldPrice = twin.sql.oldPrice
        /\ \A id \in IDs :
              HistoryPrices(twin.mem, id) = HistoryPrices(twin.sql, id)
        /\ isNewProduct(twin.mem) = isNewProduct(twin.sql)
        /\ dispatchesPriceChange(twin.mem.priceChanged, twin.mem.oldPrice)
              = dispatchesPriceChange(twin.sql.priceChanged,
                                      twin.sql.oldPrice)

----------------------------------------------------------------------------
(* The notified list as text, checked on SpecNotified.  The stores keep    *)
(* NotifiedProductIDs as the text of a JSON array which they take apart    *)
(* and put together with string functions; the dispatcher decodes it with  *)
(* json.Unmarshal.  Texts are strings; a character is a string of length 1.*)

Quote == "\""

CharAt(s, i) == SubSeq(s, i, i)

MinOf(S) == CHOOSE x \in S : \A y \in S : x <= y

MaxOf(S) == CHOOSE x \in S : \A y \in S : x >= y

\* strings.Split(s, sep) for a separator that is not empty
RECURSIVE Split(_, _)
Split(s, sep) ==
    LET n    == Len(sep)
        hits == {i \in 1..(Len(s) - n + 1) : SubSeq(s, i, i + n - 1) = sep}
    IN  IF hits = {} THEN <<s>>
        ELSE LET i == MinOf(hits)
             IN  <<SubSeq(s, 1, i - 1)>> \o Split(SubSeq(s, i + n, Len(s)), sep)

\* strings.Trim(s, cutset): the leading and trailing characters of the
\* cutset are removed
Trim(s, cutset) ==
    LET keep == {i \in 1..Len(s) : CharAt(s, i) \notin cutset}
    IN  IF keep = {} THEN "" ELSE SubSeq(s, MinOf(keep), MaxOf(keep))

\* strings.TrimSpace
TrimSpace(s) == Trim(s, {" ", "\t", "\n", "\r"})

\* strings.Join
RECURSIVE Join(_, _)
Join(parts, sep) ==
    IF parts = <<>> THEN ""
    ELSE IF Len(parts) = 1 THEN parts[1]
    ELSE parts[1] \o sep \o Join(Tail(parts), sep)

\* both stores, "Build JSON array": every ID between quotes, the quoted IDs
\* joined by commas, the whole between brackets
buildJSONArray(ids) ==
    IF Len(ids) = 0 THEN "[]"
    ELSE "[" \o Join([i \in 1..Len(ids) |-> Quote \o ids[i] \o Quote], ",")
             \o "]"

\* Store.UpdateNotifiedProductIDs, "Parse existing IDs": the first and the
\* last character are cut off, the rest is split at the commas, and every
\* part is trimmed of space and of quotes; empty parts are dropped
memParseIDs(text) ==
    IF text = "" \/ text = "[]" THEN <<>>
    ELSE LET trimmed == SubSeq(text, 2, Len(text) - 1)
             parts   == Split(trimmed, ",")
             cleaned == [i \in 1..Len(parts) |->
                            Trim(TrimSpace(parts[i]), {Quote})]
         IN  IF trimmed = "" THEN <<>>
             ELSE SelectSeq(cleaned, LAMBDA c : c # "")

\* SQLiteStore.UpdateNotifiedProductIDs, "Parse existing IDs": brackets are
\* trimmed off both ends, the rest is split at `","`, and every part is
\* trimmed of quotes
sqlParseIDs(text) ==
    IF text = "" \/ text = "[]" THEN <<>>
    ELSE LET trimmed == Trim(text, {"[", "]"})
             parts   == Split(trimmed, Quote \o "," \o Quote)
         IN  IF trimmed = "" THEN <<>>
             ELSE [i \in 1..Len(parts) |-> Trim(parts[i], {Quote})]

parseIDs(st, text) ==
    IF st = "Store" THEN memParseIDs(text) ELSE sqlParseIDs(text)

\* an update that appends without looking for the ID
UpdateNotifiedTextAlways(st, text, productID) ==
    buildJSONArray(Append(parseIDs(st, text), productID))

\* UpdateNotifiedProductIDs on the stored text: a text that holds the ID is
\* left as it is; otherwise the ID is appended and the text built anew
UpdateNotifiedText(st, text, productID) ==
    LET ids == parseIDs(st, text)
    IN  IF \E i \in 1..Len(ids) : ids[i] = productID
        THEN text
        ELSE buildJSONArray(Append(ids, productID))

\* the characters of a JSON string body are taken as they are; a backslash
\* starts an escape, of which \" \\ and \/ are decoded here
RECURSIVE jsonUnescape(_)
jsonUnescape(body) ==
    LET slashes == {i \in 1..Len(body) : CharAt(body, i) = "\\"}
    IN  IF slashes = {} THEN [ok |-> TRUE, text |-> body]
        ELSE LET i    == MinOf(slashes)
                 next == CharAt(body, i + 1)
                 rest == jsonUnescape(SubSeq(body, i + 2, Len(body)))
             IN  IF next \in {Quote, "\\", "/"} /\ rest.ok
                 THEN [ok |-> TRUE,
                       text |-> SubSeq(body, 1, i - 1) \o next \o rest.text]
                 ELSE [ok |-> FALSE, text |-> ""]

\* the quote at position i of s is not escaped: an even number of
\* backslashes stands before it
Unescaped(s, i) ==
    LET run == {k \in 0..(i - 1) :
                   \A j \in (i - k)..(i - 1) : CharAt(s, j) = "\\"}
    IN  MaxOf(run) % 2 = 0

\* the elements of a JSON array of strings after the opening bracket
RECURSIVE jsonElements(_)
jsonElements(s) ==
    LET t      == TrimSpace(s)
        ends == {i \in 2..Len(t) : CharAt(t, i) = Quote /\ Unescaped(t, i)}
    IN  IF Len(t) = 0 \/ CharAt(t, 1) # Quote \/ ends = {}
        THEN [ok |-> FALSE, ids |-> <<>>]
        ELSE LET j     == MinOf(ends)
                 elem  == jsonUnescape(SubSeq(t, 2, j - 1))
                 after == TrimSpace(SubSeq(t, j + 1, Len(t)))
             IN  IF ~elem.ok THEN [ok |-> FALSE, ids |-> <<>>]
                 ELSE IF after = "]" THEN [ok |-> TRUE, ids |-> <<elem.text>>]
                 ELSE IF Len(after) > 0 /\ CharAt(after, 1) = ","
                 THEN LET more == jsonElements(SubSeq(after, 2, Len(after)))
                      IN  [ok |-> more.ok,
                           ids |-> IF more.ok THEN <<elem.text>> \o more.ids
                                   ELSE <<>>]
                 ELSE [ok |-> FALSE, ids |-> <<>>]

\* Dispatcher.NotifyNewArrival, lines 137-139: json.Unmarshal of the text
\* into a []string; an empty text is not decoded
jsonUnmarshal(text) ==
    LET t == TrimSpace(text)
    IN  IF Len(t) < 2 \/ CharAt(t, 1) # "["
        THEN [ok |-> FALSE, ids |-> <<>>]
        ELSE IF TrimSpace(SubSeq(t, 2, Len(t))) = "]"
        THEN [ok |-> TRUE, ids |-> <<>>]
        ELSE jsonElements(SubSeq(t, 2, Len(t)))

\* the IDs the dispatcher compares the product with
notifiedIDs(text) ==
    IF text = "" THEN <<>>
    ELSE LET d == jsonUnmarshal(text) IN IF d.ok THEN d.ids ELSE <<>>

\* product identities as GenerateID makes them
NotifiedIDs == {"cn:Mac:0a1b2c3d", "cn:iPad:zz09x8y7", "cn:Watch:k3k3k3k3"}

\* the IDs added to subscription s by the calls made so far
AddedTo(s) ==
    IF probe.op = "UpdateNotifiedProductIDs" THEN probe.args.added[s] ELSE {}

\* Store.UpdateNotifiedProductIDs / SQLiteStore.UpdateNotifiedProductIDs
\* called for a stored subscription
UpdateNotifiedProductIDsCall(s, productID) ==
    LET before == subs[s].NotifiedProductIDs
        after  == UpdateNotifiedText(impl, before, productID)
    IN  /\ s \in DOMAIN subs
        /\ subs' = [subs EXCEPT ![s].NotifiedProductIDs = after]
        /\ probe' = [op |-> "UpdateNotifiedProductIDs",
                     args |-> [subscriptionID |-> s, productID |-> productID,
                               wasAdded |-> productID \in AddedTo(s),
                               added |-> [x \in SubIDs |->
                                   IF x = s THEN AddedTo(x) \cup {productID}
                                   ELSE AddedTo(x)]],
                     out |-> [before |-> before, after |-> after]]
        /\ UNCHANGED <<storeVars, now, sent, subscriptions,
                       notificationHistory, last, detailVars, scoreVars,
                       matchVars, cycle, reader, tally, identity, lateVars>>

\* subscriptions whose notified list is the given text
TextSubs(text) ==
    [s \in SubIDs |-> [OpenSub("k1") EXCEPT !.NotifiedProductIDs = text]]

\* a new subscription holds no text, or the text of the empty array
InitNotified ==
    \/ InitWith({"Store", "SQLiteStore"}, FALSE, TextSubs(""))
    \/ InitWith({"Store", "SQLiteStore"}, FALSE, TextSubs("[]"))

NextNotified ==
    \E s \in SubIDs, productID \in NotifiedIDs :
        UpdateNotifiedProductIDsCall(s, productID)

SpecNotified == InitNotified /\ [][NextNotified]_vars

\* the sequence holds no value twice
NoDuplicates(ids) ==
    \A i, j \in 1..Len(ids) : ids[i] = ids[j] => i = j

\* C40: UpdateNotifiedProductIDs is idempotent set insertion on the stored
\* list: after any sequence of calls the stored list holds every product ID
\* at most once and exactly the IDs that were added, re-adding an ID leaves
\* the stored value as it was, and the stored text decodes, as the JSON
\* array the dispatcher parses, to that same set
C40_NotifiedSetInsertion ==
    /\ \A s \in DOMAIN subs :
          LET text == subs[s].NotifiedProductIDs
              own  == parseIDs(impl, text)
              dec  == notifiedIDs(text)
          IN  /\ NoDuplicates(own)
              /\ {own[i] : i \in 1..Len(own)} = AddedTo(s)
              /\ text # "" => jsonUnmarshal(text).ok
              /\ NoDuplicates(dec)
              /\ {dec[i] : i \in 1..Len(dec)} = AddedTo(s)
    /\ (probe.op = "UpdateNotifiedProductIDs" /\ probe.args.wasAdded)
          => probe.out.after = probe.out.before

\* an ID was added again to a subscription that holds every explored ID
C40_Witness ==
    /\ probe.op = "UpdateNotifiedProductIDs"
    /\ probe.args.wasAdded
    /\ AddedTo(probe.args.subscriptionID) = NotifiedIDs
    /\ Len(notifiedIDs(subs[probe.args.subscriptionID].NotifiedProductIDs)) = 3

====
